---- MODULE Spec2Model ----
(***************************************************************************)
(* SovereignCV: the employment qualification of the Plasma service         *)
(* (evaluateEmployment), the witness builder of scripts/zk                 *)
(* (generate-inputs-real.js) and the VerifySovereignCV circuit.            *)
(*                                                                         *)
(* Addresses are integers: the value 2n is the lowercase spelling of       *)
(* address n and 2n+1 its checksummed (mixed-case) spelling, so that       *)
(* toLowerCase and getAddress are real conversions and the order of the    *)
(* even values is the lexicographic order of the lowercase hex strings.    *)
(* A month key "YYYY-MM" is the pair <<YYYY, MM>>; the empty string and    *)
(* null are 0 for addresses and <<>> for month keys.                       *)
(*                                                                         *)
(* Circuit signals are elements of a prime field. The field of the model   *)
(* is the integers modulo FieldPrime, a 30-bit prime in place of the       *)
(* 254-bit BN254 scalar field; the 32-bit and 64-bit range checks are      *)
(* narrowed accordingly (MonthBits, TimestampBits), the others keep their  *)
(* widths. Education timestamps are counted in days.                       *)
(***************************************************************************)
EXTENDS Integers, Sequences, FiniteSets, TLC

VARIABLES
    transfers,            \* the transfer list handed to the qualification
    registeredEmployers,  \* lowercase addresses the registry answers true for
    stablecoinAllowlist,  \* lowercase token addresses, in configured order
    phase,                \* "collect" while indexing, "done" after a call
    employment,           \* the EmploymentResult of the Plasma service
    window,               \* the outcome of the witness builder's pickEmploymentWindow
    attestation,          \* the education attestation AttestationStorage holds
    args,                 \* the command line of generate-inputs-real.js
    built,                \* the outcome of generate-inputs-real.js
    proof,                \* the outcome of generate-proof.js
    submitted,            \* the public signals handed to the verifier
    verification,         \* the outcome of CVVerifier.verifyCVProof
    witnessInput,         \* the input.json handed to the witness generator
    forgedFields,         \* the signals of witnessInput a prover has replaced
    witnessOutcome,       \* whether the witness generator found every constraint satisfied
    boundFields,          \* two tuples of the fields a commitment binds
    derived,              \* the commitments derived from them so far, in order
    fdcService,           \* which entry point of the FDC service is running
    requests,             \* the request store of the FDC service, by request id
    clock,                \* Date.now(), in units of five seconds
    nextPollerRun,        \* when setInterval fires processAllOpenRequests next
    processingRequestIds, \* the requests a processRequest call is working on
    awaiting,             \* the external call each request's handler is waiting for
    attestationStorage,   \* the attestation ids AttestationStorage has recorded
    restarts,             \* how many times the service process was started again
    chainHead,            \* the latest block number the RPC node reports
    fork,                 \* which of the chain's histories is the canonical one
    walletCache,          \* the wallet's entry of the index cache on disk
    indexed,              \* the outcome of the last call of an indexer
    deployed,             \* the contract the chain's transactions are sent to
    educationStore,       \* AttestationStorage._education, by attestation id
    employerFlags,        \* the addresses EmployerRegistry._isEmployer is true for
    groth16Verifier,      \* CVVerifier.groth16Verifier, the contract it forwards to
    mockResult,           \* MockGroth16Verifier.result
    lastTx,               \* the last transaction: its call, its outcome and its events
    job,                  \* the VerificationJob the facts service holds
    jobAwait,             \* the call runVerificationJob is waiting for
    deadlinePassed,       \* whether Date.now() has reached the job's deadline
    ruleMode,             \* PLASMA_RULE_MODE of the facts process and of the Plasma process
    walletAttestations,   \* the attestation ids the chain lists for the wallet, newest first
    proofResponse         \* the answer of the last POST /facts/:wallet/proof/generate

employmentVars == <<transfers, registeredEmployers, stablecoinAllowlist, phase, employment, window>>

zkVars == <<attestation, args, built, proof, submitted, verification>>

circuitVars == <<witnessInput, forgedFields, witnessOutcome>>

commitmentVars == <<boundFields, derived>>

fdcVars ==
    <<fdcService, requests, clock, nextPollerRun, processingRequestIds, awaiting, attestationStorage,
      restarts>>

indexerVars == <<chainHead, fork, walletCache, indexed>>

contractVars == <<deployed, educationStore, employerFlags, groth16Verifier, mockResult, lastTx>>

jobVars == <<job, jobAwait, deadlinePassed, ruleMode, walletAttestations, proofResponse>>

hostVars == <<contractVars, jobVars>>

laterVars == <<circuitVars, commitmentVars, fdcVars, indexerVars, hostVars>>

vars == <<employmentVars, zkVars, laterVars>>

(***************************************************************************)
(* Bounds of the model.                                                    *)
(***************************************************************************)
LedgerSize == 10
OrderPool == 6

(***************************************************************************)
(* Addresses of the fixtures.                                              *)
(***************************************************************************)
NoAddr == 0
EMPLOYER_A == 2
EMPLOYER_B == 4
TOKEN_A == 12
TOKEN_B == 14
FIXTURE_WALLET == 20
OTHER_WALLET == 22

toLowerCase(a) == 2 * (a \div 2)

getAddress(a) == 2 * (a \div 2) + 1

(***************************************************************************)
(* The chain's Transfer logs the indexers can return, in block order.      *)
(* Timestamps are Unix seconds: 1761955200 = 2025-11-01T00:00:00Z,         *)
(* 1764547199 = 2025-11-30T23:59:59Z, 1764547200 = 2025-12-01T00:00:00Z,   *)
(* 1765756800 = 2025-12-15, 1767225600 = 2026-01-01, 1767916800 =          *)
(* 2026-01-09, 1769904000 = 2026-02-01.                                    *)
(***************************************************************************)
Event(tx, blk, log, from, to, token, ts) ==
    [txHash |-> tx, blockNumber |-> blk, logIndex |-> log, from |-> from,
     to |-> to, token |-> token, amount |-> 1000, timestamp |-> ts]

Ledger ==
    << Event(32, 30, 0, getAddress(EMPLOYER_B), getAddress(FIXTURE_WALLET), getAddress(TOKEN_A), 1761955200),
       Event(16, 30, 1, EMPLOYER_A, FIXTURE_WALLET, TOKEN_A, 1764547199),
       Event(33, 31, 0, getAddress(EMPLOYER_B), getAddress(FIXTURE_WALLET), getAddress(TOKEN_A), 1764547200),
       Event(17, 31, 1, EMPLOYER_A, FIXTURE_WALLET, TOKEN_A, 1764547200),
       Event(34, 32, 0, getAddress(EMPLOYER_B), getAddress(FIXTURE_WALLET), getAddress(TOKEN_A), 1767225600),
       Event(18, 33, 0, getAddress(EMPLOYER_A), getAddress(FIXTURE_WALLET), getAddress(TOKEN_A), 1767916800),
       Event(19, 32, 1, EMPLOYER_A, FIXTURE_WALLET, TOKEN_B, 1767225600),
       Event(20, 34, 0, getAddress(EMPLOYER_A), getAddress(FIXTURE_WALLET), getAddress(TOKEN_A), 1769904000),
       Event(21, 34, 1, EMPLOYER_A, FIXTURE_WALLET, TOKEN_A, 1769904000),
       Event(22, 31, 2, EMPLOYER_A, OTHER_WALLET, TOKEN_A, 1765756800),
       Event(35, 29, 0, getAddress(EMPLOYER_B), getAddress(FIXTURE_WALLET), getAddress(TOKEN_B), 1764547199),
       Event(23, 29, 1, EMPLOYER_A, FIXTURE_WALLET, TOKEN_A, 1761955200),
       Event(36, 31, 3, getAddress(EMPLOYER_B), getAddress(FIXTURE_WALLET), getAddress(TOKEN_B), 1765756800),
       Event(24, 33, 1, EMPLOYER_A, FIXTURE_WALLET, TOKEN_B, 1767916800) >>

Min(a, b) == IF a < b THEN a ELSE b

Range(s) == {s[i] : i \in 1..Len(s)}

(***************************************************************************)
(* Date: the UTC year and month of a day count since 1970-01-01            *)
(* (getUTCFullYear, getUTCMonth + 1 of new Date(timestamp * 1000)).        *)
(***************************************************************************)
UTCYearMonth(days) ==
    LET z == days + 719468
        era == z \div 146097
        doe == z - era * 146097
        yoe == (doe - doe \div 1460 + doe \div 36524 - doe \div 146096) \div 365
        doy == doe - (365 * yoe + yoe \div 4 - yoe \div 100)
        mp == (5 * doy + 2) \div 153
        m == IF mp < 10 THEN mp + 3 ELSE mp - 9
        y == yoe + era * 400 + (IF m <= 2 THEN 1 ELSE 0)
    IN  <<y, m>>

monthKey(timestamp) == UTCYearMonth(timestamp \div 86400)

parseMonthKey(key) == key[1] * 12 + (key[2] - 1)

\* The keys of a JavaScript Map or Set filled from s, in insertion order.
RECURSIVE MapKeysLoop(_, _)
MapKeysLoop(s, acc) ==
    IF s = <<>> THEN acc
    ELSE MapKeysLoop(Tail(s),
                     IF \E i \in 1..Len(acc) : acc[i] = Head(s) THEN acc
                     ELSE Append(acc, Head(s)))

MapKeys(s) == MapKeysLoop(s, <<>>)

\* Array.prototype.sort of distinct month keys by parseMonthKey.
RECURSIVE SortMonths(_)
SortMonths(S) ==
    IF S = {} THEN <<>>
    ELSE LET m == CHOOSE x \in S : \A y \in S : parseMonthKey(x) <= parseMonthKey(y)
         IN  <<m>> \o SortMonths(S \ {m})

\* Windows whose third month is not compared with the second.
toWindowsFirstPairOnly(months) ==
    LET unique == SortMonths(Range(months))
        all == [i \in 1..(Len(unique) - 2) |-> <<unique[i], unique[i + 1], unique[i + 2]>>]
        Consecutive(w) == parseMonthKey(w[2]) = parseMonthKey(w[1]) + 1
    IN  SelectSeq(all, Consecutive)

toConsecutiveWindows(months) ==
    LET unique == SortMonths(Range(months))
        all == [i \in 1..(Len(unique) - 2) |-> <<unique[i], unique[i + 1], unique[i + 2]>>]
        Consecutive(w) == /\ parseMonthKey(w[2]) = parseMonthKey(w[1]) + 1
                          /\ parseMonthKey(w[3]) = parseMonthKey(w[2]) + 1
    IN  SelectSeq(all, Consecutive)

\* a < b for two "YYYY-MM" strings.
MonthStringLess(a, b) == a[1] < b[1] \/ (a[1] = b[1] /\ a[2] < b[2])

\* a.join("|") < b.join("|") for two windows of three month keys.
WindowKeyLess(a, b) ==
    \E i \in 1..3 : /\ \A j \in 1..(i - 1) : a[j] = b[j]
                    /\ MonthStringLess(a[i], b[i])

TokenCount(transfersInWindow, token) ==
    Cardinality({i \in 1..Len(transfersInWindow) : toLowerCase(transfersInWindow[i].token) = token})

RECURSIVE resolveTokenLoop(_, _, _, _)
resolveTokenLoop(keys, transfersInWindow, bestToken, bestCount) ==
    IF keys = <<>> THEN bestToken
    ELSE LET token == Head(keys)
             count == TokenCount(transfersInWindow, token)
         IN  IF count > bestCount
             THEN resolveTokenLoop(Tail(keys), transfersInWindow, token, count)
             ELSE IF count = bestCount /\ bestToken # NoAddr /\ token < bestToken
                  THEN resolveTokenLoop(Tail(keys), transfersInWindow, token, bestCount)
                  ELSE resolveTokenLoop(Tail(keys), transfersInWindow, bestToken, bestCount)

resolveToken(transfersInWindow) ==
    resolveTokenLoop(MapKeys([i \in 1..Len(transfersInWindow) |-> toLowerCase(transfersInWindow[i].token)]),
                     transfersInWindow, NoAddr, -1)

InWindow(t, w) == \E i \in 1..Len(w) : w[i] = monthKey(t.timestamp)

RECURSIVE pickBestWindowLoop(_, _, _)
pickBestWindowLoop(windows, ts, best) ==
    IF windows = <<>> THEN best
    ELSE LET w == Head(windows)
             InW(t) == InWindow(t, w)
             transfersInWindow == SelectSeq(ts, InW)
             paymentCount == Len(transfersInWindow)
             token == resolveToken(transfersInWindow)
             next == [monthsMatched |-> w, paymentCount |-> paymentCount, token |-> token]
         IN  IF paymentCount > best.paymentCount
             THEN pickBestWindowLoop(Tail(windows), ts, next)
             ELSE IF /\ paymentCount = best.paymentCount
                     /\ best.monthsMatched # <<>>
                     /\ \/ WindowKeyLess(w, best.monthsMatched)
                        \/ (w = best.monthsMatched /\ token < best.token)
                  THEN pickBestWindowLoop(Tail(windows), ts, next)
                  ELSE pickBestWindowLoop(Tail(windows), ts, best)

pickBestWindowForEmployer(ts) ==
    LET windows == toConsecutiveWindows([i \in 1..Len(ts) |-> monthKey(ts[i].timestamp)])
    IN  IF windows = <<>>
        THEN [monthsMatched |-> <<>>, paymentCount |-> 0, token |-> NoAddr]
        ELSE pickBestWindowLoop(windows, ts, [monthsMatched |-> <<>>, paymentCount |-> -1, token |-> NoAddr])

\* Strings as sequences of characters.
HexDigits == <<"0", "1", "2", "3", "4", "5", "6", "7", "8", "9", "a", "b", "c", "d", "e", "f">>

\* The last `width` digits of n in the given base, most significant first.
RECURSIVE Digits(_, _, _)
Digits(n, base, width) ==
    IF width = 0 THEN <<>>
    ELSE Append(Digits(n \div base, base, width - 1), HexDigits[(n % base) + 1])

\* String(n) of a non-negative integer.
RECURSIVE DecimalString(_)
DecimalString(n) ==
    IF n < 10 THEN <<HexDigits[n + 1]>>
    ELSE Append(DecimalString(n \div 10), HexDigits[(n % 10) + 1])

\* The lowercase hex string of an address ("" for null), two hex digits in place of forty.
AddressString(a) == IF a = NoAddr THEN <<>> ELSE <<"0", "x">> \o Digits(a \div 2, 16, 2)

\* "YYYY-MM" ("" for a missing month).
MonthString(key) == IF key = <<>> THEN <<>> ELSE Digits(key[1], 10, 4) \o <<"-">> \o Digits(key[2], 10, 2)

\* parts.join(separator)
RECURSIVE join(_, _)
join(parts, separator) ==
    IF parts = <<>> THEN <<>>
    ELSE IF Len(parts) = 1 THEN parts[1]
    ELSE parts[1] \o <<separator>> \o join(Tail(parts), separator)

\* The text of the canonical payload, from its parts.
joinPayload(parts) ==
    join(<<AddressString(parts[1]), AddressString(parts[2]), AddressString(parts[3]),
           MonthString(parts[4]), MonthString(parts[5]), MonthString(parts[6]),
           DecimalString(parts[7]), DecimalString(parts[8])>>, "|")

\* The payload without the token, as of a result that carries none.
commitmentPayloadNoToken(result) ==
    LET m == result.monthsMatched
        month(i) == IF i <= Len(m) THEN m[i] ELSE <<>>
    IN  << toLowerCase(result.wallet), toLowerCase(result.employer), NoAddr,
           month(1), month(2), month(3), result.paymentCount,
           IF result.qualifies THEN 1 ELSE 0 >>

\* The parts of the canonical payload, in order; joinPayload gives its text.
commitmentPayload(result) ==
    LET m == result.monthsMatched
        month(i) == IF i <= Len(m) THEN m[i] ELSE <<>>
    IN  << toLowerCase(result.wallet), toLowerCase(result.employer), toLowerCase(result.token),
           month(1), month(2), month(3), result.paymentCount,
           IF result.qualifies THEN 1 ELSE 0 >>

withCommitment(result) ==
    [wallet |-> result.wallet, employer |-> result.employer,
     monthsMatched |-> result.monthsMatched, paymentCount |-> result.paymentCount,
     qualifies |-> result.qualifies,
     factCommitment |-> <<"keccak256", commitmentPayload(result)>>]

emptyEmploymentResult(wallet) ==
    withCommitment([wallet |-> wallet, employer |-> NoAddr, monthsMatched |-> <<>>,
                    paymentCount |-> 0, token |-> NoAddr, qualifies |-> FALSE])

\* A transaction hash below 2^6 is spelled in lower case; UpperCase(h) is the
\* same hash spelled with upper-case digits.
UpperCase(h) == h + 2^6

hashToLowerCase(h) == h % 2^6

\* The comparator of sortTransfers: negative, zero or positive.
compareTransfers(a, b) ==
    IF a.blockNumber # b.blockNumber THEN a.blockNumber - b.blockNumber
    ELSE IF a.logIndex # b.logIndex THEN a.logIndex - b.logIndex
    ELSE IF toLowerCase(a.token) # toLowerCase(b.token)
         THEN toLowerCase(a.token) - toLowerCase(b.token)
         ELSE hashToLowerCase(a.txHash) - hashToLowerCase(b.txHash)

\* Array.prototype.sort is stable: x goes before the first element greater than it.
RECURSIVE InsertSorted(_, _)
InsertSorted(x, s) ==
    IF s = <<>> THEN <<x>>
    ELSE IF compareTransfers(x, Head(s)) < 0 THEN <<x>> \o s
         ELSE <<Head(s)>> \o InsertSorted(x, Tail(s))

RECURSIVE SortLoop(_, _)
SortLoop(s, acc) == IF s = <<>> THEN acc ELSE SortLoop(Tail(s), InsertSorted(Head(s), acc))

sortTransfers(ts) == SortLoop(ts, <<>>)

IsEligibleNoTokenCheck(wallet, t, employers, allowlist) ==
    /\ toLowerCase(t.to) = toLowerCase(wallet)
    /\ toLowerCase(t.from) \in employers

IsEligible(wallet, t, employers, allowlist) ==
    /\ toLowerCase(t.to) = toLowerCase(wallet)
    /\ toLowerCase(t.from) \in employers
    /\ toLowerCase(t.token) \in Range(allowlist)

filterEligibleTransfers(wallet, ts, employers, allowlist) ==
    LET Keep(t) == IsEligible(wallet, t, employers, allowlist)
    IN  sortTransfers(SelectSeq(ts, Keep))

\* The entries of the Map byEmployer, in insertion order.
GroupByEmployer(filtered) ==
    LET keys == MapKeys([i \in 1..Len(filtered) |-> toLowerCase(filtered[i].from)])
    IN  [k \in 1..Len(keys) |->
            LET From(t) == toLowerCase(t.from) = keys[k]
            IN  [employer |-> keys[k], transfers |-> SelectSeq(filtered, From)]]

NoCandidate == [qualifies |-> FALSE]

CandidateBeatsNoTieBreak(candidate, best) ==
    \/ ~best.qualifies
    \/ candidate.paymentCount > best.paymentCount

\* Whether the loop over byEmployer replaces best by candidate.
CandidateBeats(candidate, best) ==
    \/ ~best.qualifies
    \/ candidate.paymentCount > best.paymentCount
    \/ (candidate.paymentCount = best.paymentCount /\ candidate.employer < best.employer)

RECURSIVE strictLoop(_, _, _)
strictLoop(wallet, entries, best) ==
    IF entries = <<>> THEN best
    ELSE LET e == Head(entries)
             w == pickBestWindowForEmployer(e.transfers)
             candidate == [wallet |-> wallet, employer |-> e.employer,
                           monthsMatched |-> w.monthsMatched, paymentCount |-> w.paymentCount,
                           token |-> w.token, qualifies |-> TRUE]
         IN  IF w.monthsMatched = <<>> \/ w.token = NoAddr
             THEN strictLoop(wallet, Tail(entries), best)
             ELSE IF CandidateBeats(candidate, best)
                  THEN strictLoop(wallet, Tail(entries), candidate)
                  ELSE strictLoop(wallet, Tail(entries), best)

evaluateStrictThreeMonths(wallet, byEmployer) ==
    LET best == strictLoop(wallet, byEmployer, NoCandidate)
    IN  IF ~best.qualifies THEN emptyEmploymentResult(wallet) ELSE withCommitment(best)

RECURSIVE demoLoop(_, _, _)
demoLoop(wallet, entries, best) ==
    IF entries = <<>> THEN best
    ELSE LET e == Head(entries)
             token == resolveToken(e.transfers)
             uniqueMonths == SortMonths({monthKey(e.transfers[i].timestamp) : i \in 1..Len(e.transfers)})
             candidate == [wallet |-> wallet, employer |-> e.employer,
                           monthsMatched |-> SubSeq(uniqueMonths, 1, Min(3, Len(uniqueMonths))),
                           paymentCount |-> Len(e.transfers),
                           token |-> token, qualifies |-> TRUE]
         IN  IF Len(e.transfers) = 0 \/ token = NoAddr
             THEN demoLoop(wallet, Tail(entries), best)
             ELSE IF CandidateBeats(candidate, best)
                  THEN demoLoop(wallet, Tail(entries), candidate)
                  ELSE demoLoop(wallet, Tail(entries), best)

evaluateDemoOnePayment(wallet, byEmployer) ==
    LET best == demoLoop(wallet, byEmployer, NoCandidate)
    IN  IF ~best.qualifies THEN emptyEmploymentResult(wallet) ELSE withCommitment(best)

evaluateEmployment(wallet, ts, employers, allowlist, mode) ==
    LET filtered == filterEligibleTransfers(wallet, ts, employers, allowlist)
    IN  IF Len(filtered) = 0 THEN emptyEmploymentResult(wallet)
        ELSE IF mode = "demo_one_payment"
             THEN evaluateDemoOnePayment(wallet, GroupByEmployer(filtered))
             ELSE evaluateStrictThreeMonths(wallet, GroupByEmployer(filtered))

\* services/plasma/src/qualification.ts: the same selection without the sort and
\* without the rule mode.
evaluateEmploymentUnsorted(wallet, ts, employers, allowlist) ==
    LET Keep(t) == IsEligible(wallet, t, employers, allowlist)
    IN  evaluateStrictThreeMonths(wallet, GroupByEmployer(SelectSeq(ts, Keep)))


(***************************************************************************)
(* The witness builder: scripts/zk/generate-inputs-real.js.                *)
(***************************************************************************)
\* registry.isEmployer(employer) of the EmployerRegistry contract.
isEmployer(employers, employer) == toLowerCase(employer) \in employers

\* getLogs per allowlisted token with the wallet as the indexed receiver topic.
fetchTransfersForWallet(logs, wallet, allowlistedTokens) ==
    LET PerToken(k) ==
            LET Match(log) == /\ toLowerCase(log.token) = toLowerCase(allowlistedTokens[k])
                              /\ toLowerCase(log.to) = toLowerCase(wallet)
                matched == SelectSeq(logs, Match)
            IN  [i \in 1..Len(matched) |->
                    [token |-> getAddress(allowlistedTokens[k]),
                     from |-> getAddress(matched[i].from),
                     to |-> getAddress(matched[i].to),
                     timestamp |-> matched[i].timestamp]]
        RECURSIVE Concat(_)
        Concat(k) == IF k > Len(allowlistedTokens) THEN <<>> ELSE PerToken(k) \o Concat(k + 1)
    IN  Concat(1)

\* The first three distinct months, whether or not they are consecutive.
getFirstThreeMonths(months) ==
    LET unique == SortMonths(Range(months))
    IN  IF Len(unique) < 3 THEN <<>> ELSE SubSeq(unique, 1, 3)

getBestThreeConsecutiveMonths(months) ==
    LET windows == toConsecutiveWindows(months)
    IN  IF windows = <<>> THEN <<>> ELSE windows[1]

\* Candidates keyed by "from" alone, under the token of the employer's first transfer.
GroupByEmployerAnyToken(ts, wallet, registered) ==
    LET Keep(t) == t.to = wallet /\ t.from \in registered
        kept == SelectSeq(ts, Keep)
        keys == MapKeys([i \in 1..Len(kept) |-> toLowerCase(kept[i].from)])
    IN  [k \in 1..Len(keys) |->
            LET Same(t) == toLowerCase(t.from) = keys[k]
            IN  [employer |-> keys[k], token |-> toLowerCase(SelectSeq(kept, Same)[1].token),
                 events |-> SelectSeq(kept, Same)]]

\* The entries of the Map candidates, keyed by "from|token", in insertion order.
GroupByEmployerToken(ts, wallet, registered) ==
    LET Keep(t) == t.to = wallet /\ t.from \in registered
        kept == SelectSeq(ts, Keep)
        keys == MapKeys([i \in 1..Len(kept) |-> <<toLowerCase(kept[i].from), toLowerCase(kept[i].token)>>])
    IN  [k \in 1..Len(keys) |->
            LET Same(t) == <<toLowerCase(t.from), toLowerCase(t.token)>> = keys[k]
            IN  [employer |-> keys[k][1], token |-> keys[k][2], events |-> SelectSeq(kept, Same)]]

MonthCount(events, month) == Cardinality({i \in 1..Len(events) : monthKey(events[i].timestamp) = month})

NoWindow == [found |-> FALSE]

CurrentBeatsNoTieBreak(current, best) ==
    \/ ~best.found
    \/ current.paymentCount > best.paymentCount

\* Whether the loop over candidates replaces best by current.
CurrentBeats(current, best) ==
    \/ ~best.found
    \/ current.paymentCount > best.paymentCount
    \/ /\ current.paymentCount = best.paymentCount
       /\ LET ce == toLowerCase(current.employer)
              ct == toLowerCase(current.token)
              be == toLowerCase(best.employer)
              bt == toLowerCase(best.token)
          IN  ce < be \/ (ce = be /\ ct < bt)

RECURSIVE pickLoop(_, _)
pickLoop(entries, best) ==
    IF entries = <<>> THEN best
    ELSE LET e == Head(entries)
             matchedMonths == getBestThreeConsecutiveMonths(
                                 [i \in 1..Len(e.events) |-> monthKey(e.events[i].timestamp)])
             c0 == MonthCount(e.events, matchedMonths[1])
             c1 == MonthCount(e.events, matchedMonths[2])
             c2 == MonthCount(e.events, matchedMonths[3])
             current == [found |-> TRUE, employer |-> getAddress(e.employer),
                         token |-> getAddress(e.token), monthsMatched |-> matchedMonths,
                         monthCounts |-> <<c0, c1, c2>>, paymentCount |-> c0 + c1 + c2]
         IN  IF matchedMonths = <<>> THEN pickLoop(Tail(entries), best)
             ELSE IF c0 <= 0 \/ c1 <= 0 \/ c2 <= 0 THEN pickLoop(Tail(entries), best)
             ELSE IF CurrentBeats(current, best) THEN pickLoop(Tail(entries), current)
             ELSE pickLoop(Tail(entries), best)

\* The returned window, or the Error thrown.
pickEmploymentWindow(ts, wallet, employers) ==
    LET uniqueEmployers == MapKeys([i \in 1..Len(ts) |-> ts[i].from])
        registered == {getAddress(uniqueEmployers[i]) : i \in
                          {j \in 1..Len(uniqueEmployers) : isEmployer(employers, uniqueEmployers[j])}}
        best == pickLoop(GroupByEmployerToken(ts, wallet, registered), NoWindow)
    IN  IF registered = {} THEN [found |-> FALSE, error |-> "No registered employer found"]
        ELSE IF ~best.found THEN [found |-> FALSE, error |-> "No qualifying 3-consecutive-month employment window found"]
        ELSE best

\* main: the transfers are fetched, then the window is picked.
loadEmploymentWindow(logs, wallet, employers, allowlistedTokens) ==
    LET fetched == fetchTransfersForWallet(logs, getAddress(wallet), allowlistedTokens)
    IN  IF Len(fetched) = 0 THEN [found |-> FALSE, error |-> "No allowlisted incoming transfers found"]
        ELSE pickEmploymentWindow(fetched, getAddress(wallet), employers)

(***************************************************************************)
(* The state machine of the employment qualification.                      *)
(***************************************************************************)
NotCalled == [called |-> FALSE]

RuleModes == {"strict_3_months", "demo_one_payment"}

EmployerSets == {{EMPLOYER_A, EMPLOYER_B}, {EMPLOYER_B}}

Allowlists == {<<TOKEN_B, TOKEN_A>>, <<TOKEN_A>>}

LedgerIndex(e) == CHOOSE i \in 1..Len(Ledger) : Ledger[i] = e

\* The Plasma service and the witness builder have not been called.
EmploymentIdle ==
    /\ transfers = <<>>
    /\ registeredEmployers = {}
    /\ stablecoinAllowlist = <<>>
    /\ phase = "collect"
    /\ employment = NotCalled
    /\ window = NotCalled

ZkIdle ==
    /\ attestation = NotCalled
    /\ args = NotCalled
    /\ built = NotCalled
    /\ proof = NotCalled
    /\ submitted = <<>>
    /\ verification = NotCalled

\* The witness generator has not been given an input.
CircuitIdle ==
    /\ witnessInput = NotCalled
    /\ forgedFields = {}
    /\ witnessOutcome = NotCalled

\* No commitment has been asked for.
CommitmentIdle ==
    /\ boundFields = NotCalled
    /\ derived = <<>>

\* The FDC service is not running.
FdcIdle ==
    /\ fdcService = "none"
    /\ requests = <<>>
    /\ clock = 0
    /\ nextPollerRun = 0
    /\ processingRequestIds = {}
    /\ awaiting = <<>>
    /\ attestationStorage = {}
    /\ restarts = 0

\* No indexer has been called and the index cache holds nothing for the wallet.
IndexerIdle ==
    /\ chainHead = 0
    /\ fork = 0
    /\ walletCache = [cached |-> FALSE]
    /\ indexed = NotCalled

ContractsIdle ==
    /\ deployed = "none"
    /\ educationStore = <<>>
    /\ employerFlags = {}
    /\ groth16Verifier = "none"
    /\ mockResult = TRUE
    /\ lastTx = [fn |-> "none"]

\* The facts service holds no verification job and has answered no proof request.
JobIdle ==
    /\ job = NotCalled
    /\ jobAwait = NotCalled
    /\ deadlinePassed = FALSE
    /\ ruleMode = NotCalled
    /\ walletAttestations = <<>>
    /\ proofResponse = NotCalled

HostIdle == ContractsIdle /\ JobIdle

LaterIdle == CircuitIdle /\ CommitmentIdle /\ FdcIdle /\ IndexerIdle /\ HostIdle

EmploymentInit ==
    /\ transfers = <<>>
    /\ registeredEmployers \in EmployerSets
    /\ stablecoinAllowlist \in Allowlists
    /\ phase = "collect"
    /\ employment = NotCalled
    /\ window = NotCalled
    /\ attestation = NotCalled
    /\ args = NotCalled
    /\ built = NotCalled
    /\ proof = NotCalled
    /\ submitted = <<>>
    /\ verification = NotCalled
    /\ LaterIdle

\* The indexer reports one more log of the chain, in the order of the ledger.
IndexTransfer ==
    /\ phase = "collect"
    /\ \E i \in 1..LedgerSize :
          /\ \A k \in 1..Len(transfers) : LedgerIndex(transfers[k]) < i
          /\ transfers' = Append(transfers, Ledger[i])
    /\ UNCHANGED <<registeredEmployers, stablecoinAllowlist, phase, employment, window, zkVars, laterVars>>

\* The caller hands the logs over in an order of its own.
IndexTransferAnyOrder ==
    /\ phase = "collect"
    /\ \E i \in 1..OrderPool :
          /\ \A k \in 1..Len(transfers) : transfers[k] # Ledger[i]
          /\ transfers' = Append(transfers, Ledger[i])
    /\ UNCHANGED <<registeredEmployers, stablecoinAllowlist, phase, employment, window, zkVars, laterVars>>

\* GET /plasma/employment/:wallet
EvaluateEmployment(mode) ==
    /\ phase = "collect"
    /\ phase' = "done"
    /\ employment' = [called |-> TRUE, mode |-> mode,
                      result |-> evaluateEmployment(getAddress(FIXTURE_WALLET), transfers,
                                                    registeredEmployers, stablecoinAllowlist, mode)]
    /\ UNCHANGED <<transfers, registeredEmployers, stablecoinAllowlist, window, zkVars, laterVars>>

\* generate-inputs-real.js main, up to the employment window.
PickEmploymentWindow ==
    /\ phase = "collect"
    /\ phase' = "done"
    /\ window' = [called |-> TRUE,
                  result |-> loadEmploymentWindow(transfers, FIXTURE_WALLET, registeredEmployers,
                                                  stablecoinAllowlist)]
    /\ UNCHANGED <<transfers, registeredEmployers, stablecoinAllowlist, employment, zkVars, laterVars>>

Next ==
    \/ IndexTransfer
    \/ \E mode \in RuleModes : EvaluateEmployment(mode)
    \/ PickEmploymentWindow

Spec == EmploymentInit /\ [][Next]_vars

NextAnyOrder ==
    \/ IndexTransferAnyOrder
    \/ \E mode \in RuleModes : EvaluateEmployment(mode)
    \/ PickEmploymentWindow

OrderInit ==
    /\ EmploymentInit
    /\ registeredEmployers = {EMPLOYER_A, EMPLOYER_B}
    /\ stablecoinAllowlist = <<TOKEN_B, TOKEN_A>>

SpecOrder == OrderInit /\ [][NextAnyOrder]_vars


(***************************************************************************)
(* The field of the circuit signals.                                       *)
(***************************************************************************)
FieldPrime == 2^30 - 35

FAdd(a, b) == (a + b) % FieldPrime

FSub(a, b) == (a - b + FieldPrime) % FieldPrime

\* a * b in the field, by doubling, so that no intermediate value leaves 32 bits.
RECURSIVE MulMod(_, _)
MulMod(a, b) ==
    IF a = 0 \/ b = 0 THEN 0
    ELSE LET half == MulMod((a + a) % FieldPrime, b \div 2)
         IN  IF b % 2 = 1 THEN (half + a) % FieldPrime ELSE half

\* F.toObject(F.e(value))
toFieldObject(value) == value % FieldPrime

squareInField(value) == MulMod(toFieldObject(value), toFieldObject(value))

\* circomlib's Poseidon, as a hash of the input sequence into the field.
PoseidonMix == 7^5

\* The state after absorbing the first k inputs.
RECURSIVE PoseidonLoop(_, _)
PoseidonLoop(inputs, k) ==
    IF k = 0 THEN Len(inputs)
    ELSE FAdd(MulMod(PoseidonLoop(inputs, k - 1), PoseidonMix), FAdd(toFieldObject(inputs[k]), 1))

Poseidon(inputs) == PoseidonLoop(inputs, Len(inputs))

poseidonHash(inputs) == Poseidon(inputs)

(***************************************************************************)
(* The templates of verifySovereignCV.circom. A template with constraints  *)
(* of its own has two operators: the value of its output and the          *)
(* satisfiability of its constraints.                                      *)
(***************************************************************************)
ProviderBits == 3
MonthBits == 16
CountBits == 16
ExperienceBits == 16
TimestampBits == 24
TotalBits == 17

\* out is forced to 1 when in is 0 and to 0 otherwise (inv is a free hint).
IsZero(in) == IF in = 0 THEN 1 ELSE 0

IsEqual(a, b) == IsZero(FSub(a, b))

AssertBit(in) == MulMod(in, FSub(in, 1)) = 0

\* n boolean outputs that sum to in exist exactly when in < 2^n (2^n is below the prime).
Num2Bits(n, in) == in < 2^n

Num2BitsOut(in, k) == (in \div 2^k) % 2

LessThanBitsIn(n, in0, in1) == FSub(FAdd(in0, 2^n), in1)

LessThanOk(n, in0, in1) == Num2Bits(n + 1, LessThanBitsIn(n, in0, in1))

LessThan(n, in0, in1) == FSub(1, Num2BitsOut(LessThanBitsIn(n, in0, in1), n))

(***************************************************************************)
(* template VerifySovereignCV, over the record s of its input signals.     *)
(***************************************************************************)
PublicSignalNames ==
    <<"requiredSkillHash", "minExperienceMonths", "educationCommitment", "employmentCommitment", "result">>

walletHashNonZero(s) == FSub(1, IsZero(s.walletHash))

\* The public policy inputs are the private ones; the squares are bound as well.
PolicyBindingSquaresOnly(s) ==
    /\ MulMod(s.requiredSkillHash, s.requiredSkillHash) = s.requiredSkillBindingSquare
    /\ MulMod(s.minExperienceMonths, s.minExperienceMonths) = s.minimumExperienceBindingSquare

PolicyBinding(s) ==
    /\ s.requiredSkillHash = s.policyRequiredSkillHash
    /\ s.minExperienceMonths = s.policyMinExperienceMonths
    /\ MulMod(s.requiredSkillHash, s.requiredSkillHash) = s.requiredSkillBindingSquare
    /\ MulMod(s.minExperienceMonths, s.minExperienceMonths) = s.minimumExperienceBindingSquare

\* The range checks without the two on the education timestamps.
RangeChecksNoTimestamps(s) ==
    /\ Num2Bits(ProviderBits, s.providerCode)
    /\ Num2Bits(MonthBits, s.employmentMonth0)
    /\ Num2Bits(MonthBits, s.employmentMonth1)
    /\ Num2Bits(MonthBits, s.employmentMonth2)
    /\ Num2Bits(CountBits, s.month0TransferCount)
    /\ Num2Bits(CountBits, s.month1TransferCount)
    /\ Num2Bits(CountBits, s.month2TransferCount)
    /\ Num2Bits(ExperienceBits, s.employmentExperienceMonths)
    /\ Num2Bits(ExperienceBits, s.policyMinExperienceMonths)

\* The range checks without the two on the experience months.
RangeChecksNoExperience(s) ==
    /\ Num2Bits(ProviderBits, s.providerCode)
    /\ Num2Bits(MonthBits, s.employmentMonth0)
    /\ Num2Bits(MonthBits, s.employmentMonth1)
    /\ Num2Bits(MonthBits, s.employmentMonth2)
    /\ Num2Bits(CountBits, s.month0TransferCount)
    /\ Num2Bits(CountBits, s.month1TransferCount)
    /\ Num2Bits(CountBits, s.month2TransferCount)
    /\ Num2Bits(TimestampBits, s.educationIssuedAt)
    /\ Num2Bits(TimestampBits, s.educationExpiryAt)

RangeChecks(s) ==
    /\ Num2Bits(ProviderBits, s.providerCode)
    /\ Num2Bits(MonthBits, s.employmentMonth0)
    /\ Num2Bits(MonthBits, s.employmentMonth1)
    /\ Num2Bits(MonthBits, s.employmentMonth2)
    /\ Num2Bits(CountBits, s.month0TransferCount)
    /\ Num2Bits(CountBits, s.month1TransferCount)
    /\ Num2Bits(CountBits, s.month2TransferCount)
    /\ Num2Bits(ExperienceBits, s.employmentExperienceMonths)
    /\ Num2Bits(ExperienceBits, s.policyMinExperienceMonths)
    /\ Num2Bits(TimestampBits, s.educationIssuedAt)
    /\ Num2Bits(TimestampBits, s.educationExpiryAt)

\* A provider check that only asks for a nonzero code.
providerValidAnyNonZero(s) == FSub(1, IsZero(s.providerCode))

providerValid(s) ==
    FAdd(FAdd(IsEqual(s.providerCode, 1), IsEqual(s.providerCode, 2)),
         FAdd(IsEqual(s.providerCode, 3), IsEqual(s.providerCode, 4)))

issuedNonZero(s) == FSub(1, IsZero(s.educationIssuedAt))

notExpired(s) == FSub(1, LessThan(TimestampBits, s.educationExpiryAt, s.educationIssuedAt))

\* A skill check that holds of every pair of hashes.
skillMatchesAlways(s) == 1

skillMatches(s) == IsEqual(s.educationSkillHash, s.policyRequiredSkillHash)

certificateWitnessHashCalc(s) ==
    Poseidon(<<s.walletHash, s.salaryCommitment, s.providerCode, s.educationSkillHash,
               s.educationIssuedAt, s.educationExpiryAt, s.educationAttestationId>>)

educationSatisfied(s) ==
    MulMod(MulMod(providerValid(s), issuedNonZero(s)), MulMod(notExpired(s), skillMatches(s)))

EducationChecks(s) ==
    /\ providerValid(s) = 1
    /\ issuedNonZero(s) = 1
    /\ LessThanOk(TimestampBits, s.educationExpiryAt, s.educationIssuedAt)
    /\ notExpired(s) = 1
    /\ skillMatches(s) = 1
    /\ certificateWitnessHashCalc(s) = s.certificateWitnessHash
    /\ AssertBit(educationSatisfied(s))
    /\ educationSatisfied(s) = 1

month0HasTransfer(s) == FSub(1, IsZero(s.month0TransferCount))

month1HasTransfer(s) == FSub(1, IsZero(s.month1TransferCount))

month2HasTransfer(s) == FSub(1, IsZero(s.month2TransferCount))

month1Consecutive(s) == IsEqual(s.employmentMonth1, FAdd(s.employmentMonth0, 1))

\* A month gadget that asks only for a later month, not for the next one.
month2ConsecutiveOrLater(s) ==
    FSub(1, LessThan(MonthBits, s.employmentMonth2, FAdd(s.employmentMonth1, 1)))

month2Consecutive(s) == IsEqual(s.employmentMonth2, FAdd(s.employmentMonth1, 1))

\* experienceSatisfied with the experience tied to the length of the window.
experienceSatisfiedWithinWindow(s) ==
    IF s.employmentExperienceMonths = FAdd(FSub(s.employmentMonth2, s.employmentMonth0), 1)
    THEN FSub(1, LessThan(ExperienceBits, s.employmentExperienceMonths, s.policyMinExperienceMonths))
    ELSE 0

experienceSatisfied(s) ==
    FSub(1, LessThan(ExperienceBits, s.employmentExperienceMonths, s.policyMinExperienceMonths))

employmentSatisfied(s) ==
    LET employmentGateA == MulMod(s.employerRegistered, s.tokenAllowed)
        employmentGateB == MulMod(month0HasTransfer(s), month1HasTransfer(s))
        employmentGateC == MulMod(month2HasTransfer(s), month1Consecutive(s))
        employmentGateD == MulMod(month2Consecutive(s), experienceSatisfied(s))
    IN  MulMod(MulMod(employmentGateA, employmentGateB), MulMod(employmentGateC, employmentGateD))

totalTransferCount(s) == FAdd(FAdd(s.month0TransferCount, s.month1TransferCount), s.month2TransferCount)

EmploymentChecks(s) ==
    /\ month0HasTransfer(s) = 1
    /\ month1HasTransfer(s) = 1
    /\ month2HasTransfer(s) = 1
    /\ month1Consecutive(s) = 1
    /\ month2Consecutive(s) = 1
    /\ LessThanOk(ExperienceBits, s.employmentExperienceMonths, s.policyMinExperienceMonths)
    /\ experienceSatisfied(s) = 1
    /\ AssertBit(employmentSatisfied(s))
    /\ employmentSatisfied(s) = 1
    /\ Num2Bits(TotalBits, totalTransferCount(s))

educationCommitmentCalc(s) ==
    Poseidon(<<s.walletHash, s.providerCode, s.certificateWitnessHash, s.educationAttestationId,
               s.educationIssuedAt>>)

employmentCommitmentCalc(s) ==
    Poseidon(<<s.walletHash, s.employmentEmployerHash, s.employmentTokenHash, s.employmentMonth0,
               s.employmentMonth1, s.employmentMonth2, totalTransferCount(s), employmentSatisfied(s)>>)

\* The commitments bound to their squares only.
CommitmentBindingSquaresOnly(s) ==
    /\ MulMod(s.educationCommitment, s.educationCommitment) = s.educationCommitmentBindingSquare
    /\ MulMod(s.employmentCommitment, s.employmentCommitment) = s.employmentCommitmentBindingSquare

CommitmentBinding(s) ==
    /\ s.educationCommitment = educationCommitmentCalc(s)
    /\ MulMod(s.educationCommitment, s.educationCommitment) = s.educationCommitmentBindingSquare
    /\ s.employmentCommitment = employmentCommitmentCalc(s)
    /\ MulMod(s.employmentCommitment, s.employmentCommitment) = s.employmentCommitmentBindingSquare

computedResult(s) == MulMod(educationSatisfied(s), employmentSatisfied(s))

ResultBinding(s) ==
    /\ MulMod(s.result, s.result) = MulMod(computedResult(s), computedResult(s))
    /\ s.result = 1

\* Every constraint of the circuit holds of the input signals, read into the field.
VerifySovereignCV(input) ==
    LET s == [f \in DOMAIN input |-> toFieldObject(input[f])]
    IN  /\ AssertBit(s.employerRegistered)
        /\ AssertBit(s.tokenAllowed)
        /\ AssertBit(s.result)
        /\ walletHashNonZero(s) = 1
        /\ PolicyBinding(s)
        /\ RangeChecks(s)
        /\ EducationChecks(s)
        /\ EmploymentChecks(s)
        /\ CommitmentBinding(s)
        /\ ResultBinding(s)

(***************************************************************************)
(* generate-inputs-real.js: loadEducationEvidence and main.                *)
(***************************************************************************)
providerCodeByName == [udemy |-> 1, coursera |-> 2, datacamp |-> 3, edx |-> 4]

\* String(provider).toLowerCase() for the provider names of the model.
providerToLowerCase(provider) ==
    IF provider = "Coursera" THEN "coursera"
    ELSE IF provider = "EDX" THEN "edx"
    ELSE provider

\* BigInt(address): the number the hex string spells, whatever its case.
AddressToBigInt(a) == a \div 2

Failure(message) == [ok |-> FALSE, error |-> message]

loadEducationEvidence(att, wallet) ==
    LET providerLower == providerToLowerCase(att.provider)
    IN  IF ~att.exists THEN Failure("Attestation not found on-chain")
        ELSE IF getAddress(att.subject) # wallet THEN Failure("Attestation subject mismatch")
        ELSE IF providerLower \notin DOMAIN providerCodeByName
             THEN Failure("Unsupported provider in attestation")
        ELSE [ok |-> TRUE, certHash |-> att.certHash, provider |-> providerLower,
              providerCode |-> providerCodeByName[providerLower], issuedAt |-> att.issuedAt]

\* The inputs of the employment commitment with employer and token exchanged.
employmentCommitmentInputsSwapped(walletHash, employmentWindow, total) ==
    <<walletHash, toFieldObject(AddressToBigInt(employmentWindow.token)),
      toFieldObject(AddressToBigInt(employmentWindow.employer)),
      parseMonthKey(employmentWindow.monthsMatched[1]), parseMonthKey(employmentWindow.monthsMatched[2]),
      parseMonthKey(employmentWindow.monthsMatched[3]), total, 1>>

employmentCommitmentInputs(walletHash, employmentWindow, total) ==
    <<walletHash, toFieldObject(AddressToBigInt(employmentWindow.employer)),
      toFieldObject(AddressToBigInt(employmentWindow.token)),
      parseMonthKey(employmentWindow.monthsMatched[1]), parseMonthKey(employmentWindow.monthsMatched[2]),
      parseMonthKey(employmentWindow.monthsMatched[3]), total, 1>>

\* The witness record main writes, from the validated evidence.
buildRecord(a, wallet, education, employmentWindow) ==
    LET requiredSkillHash == a.requiredSkillHash
        educationSkillHash == IF a.hasEducationSkillHash THEN a.educationSkillHash ELSE requiredSkillHash
        walletHash == toFieldObject(AddressToBigInt(wallet))
        educationAttestationId == toFieldObject(a.attestationId)
        month0TransferCount == employmentWindow.monthCounts[1]
        month1TransferCount == employmentWindow.monthCounts[2]
        month2TransferCount == employmentWindow.monthCounts[3]
        total == month0TransferCount + month1TransferCount + month2TransferCount
        certificateWitnessHash ==
            poseidonHash(<<walletHash, a.salaryCommitment, education.providerCode, educationSkillHash,
                           education.issuedAt, a.educationExpiryAt, educationAttestationId>>)
        educationCommitment ==
            poseidonHash(<<walletHash, education.providerCode, certificateWitnessHash,
                           educationAttestationId, education.issuedAt>>)
        employmentCommitment == poseidonHash(employmentCommitmentInputs(walletHash, employmentWindow, total))
    IN  [walletHash |-> walletHash,
         salaryCommitment |-> a.salaryCommitment,
         providerCode |-> education.providerCode,
         educationSkillHash |-> educationSkillHash,
         educationIssuedAt |-> education.issuedAt,
         educationExpiryAt |-> a.educationExpiryAt,
         educationAttestationId |-> educationAttestationId,
         employmentEmployerHash |-> toFieldObject(AddressToBigInt(employmentWindow.employer)),
         employmentTokenHash |-> toFieldObject(AddressToBigInt(employmentWindow.token)),
         employmentMonth0 |-> parseMonthKey(employmentWindow.monthsMatched[1]),
         employmentMonth1 |-> parseMonthKey(employmentWindow.monthsMatched[2]),
         employmentMonth2 |-> parseMonthKey(employmentWindow.monthsMatched[3]),
         month0TransferCount |-> month0TransferCount,
         month1TransferCount |-> month1TransferCount,
         month2TransferCount |-> month2TransferCount,
         employmentExperienceMonths |-> a.employmentExperienceMonths,
         policyRequiredSkillHash |-> requiredSkillHash,
         policyMinExperienceMonths |-> a.minExperienceMonths,
         requiredSkillHash |-> requiredSkillHash,
         minExperienceMonths |-> a.minExperienceMonths,
         result |-> 1,
         employerRegistered |-> 1,
         tokenAllowed |-> 1,
         certificateWitnessHash |-> certificateWitnessHash,
         educationCommitment |-> educationCommitment,
         employmentCommitment |-> employmentCommitment,
         requiredSkillBindingSquare |-> squareInField(requiredSkillHash),
         minimumExperienceBindingSquare |-> squareInField(a.minExperienceMonths),
         educationCommitmentBindingSquare |-> squareInField(educationCommitment),
         employmentCommitmentBindingSquare |-> squareInField(employmentCommitment)]

\* main: the witness record and its metadata, or the Error that ends the run.
main(a, att, logs, employers, allowlistedTokens) ==
    LET wallet == getAddress(a.wallet)
        education == loadEducationEvidence(att, wallet)
        employmentWindow == loadEmploymentWindow(logs, wallet, employers, allowlistedTokens)
    IN  IF ~education.ok THEN education
        ELSE IF a.educationExpiryAt < education.issuedAt
             THEN Failure("education-expiry-at must be >= attestation issuedAt")
        ELSE IF ~employmentWindow.found THEN Failure(employmentWindow.error)
        ELSE [ok |-> TRUE,
              record |-> buildRecord(a, wallet, education, employmentWindow),
              employment |-> employmentWindow]

(***************************************************************************)
(* generate-proof.js, snarkjs groth16 and the verifier contracts.          *)
(***************************************************************************)
publicSignalsOf(record) == [i \in 1..Len(PublicSignalNames) |-> toFieldObject(record[PublicSignalNames[i]])]

ProofBytes == 32 * 8

\* The witness generator fails on an unsatisfied constraint; the proof is for the signals it read.
generateProof(record) ==
    IF VerifySovereignCV(record)
    THEN [called |-> TRUE, made |-> TRUE, length |-> ProofBytes, input |-> record,
          publicSignals |-> publicSignalsOf(record)]
    ELSE [called |-> TRUE, made |-> FALSE]

\* Groth16 verification: the pairing check passes for the public signals the proof was
\* made for, each below the field's order, and for no others.
Groth16Verify(p, publicSignals) ==
    /\ p.made
    /\ \A i \in 1..Len(publicSignals) : publicSignals[i] < FieldPrime
    /\ publicSignals = p.publicSignals

\* Groth16VerifierAdapter.verifyProof
AdapterVerifyProof(p, publicSignals) ==
    IF p.length # ProofBytes THEN [reverted |-> TRUE, error |-> "InvalidProofEncoding"]
    ELSE IF Len(publicSignals) # 5 THEN [reverted |-> TRUE, error |-> "InvalidPublicSignalsLength"]
    ELSE [reverted |-> FALSE, success |-> Groth16Verify(p, publicSignals)]

\* CVVerifier.verifyCVProof: the verdict and the CVProofVerified event.
verifyCVProof(p, publicSignals) ==
    LET answer == AdapterVerifyProof(p, publicSignals)
    IN  IF answer.reverted THEN [called |-> TRUE, reverted |-> TRUE, error |-> answer.error]
        ELSE [called |-> TRUE, reverted |-> FALSE, success |-> answer.success,
              event |-> [name |-> "CVProofVerified",
                         proofHash |-> <<"keccak256", p.publicSignals, publicSignals>>,
                         success |-> answer.success]]

(***************************************************************************)
(* The state machine of witness building, proving and verification.        *)
(***************************************************************************)
WitnessLedger ==
    << Event(48, 40, 0, EMPLOYER_A + 1, FIXTURE_WALLET + 1, TOKEN_A + 1, 1761955200),
       Event(49, 40, 1, EMPLOYER_A, FIXTURE_WALLET, TOKEN_A, 1764547199),
       Event(50, 41, 0, EMPLOYER_A, FIXTURE_WALLET + 1, TOKEN_A, 1765756800),
       Event(51, 42, 0, EMPLOYER_A + 1, FIXTURE_WALLET, TOKEN_A, 1767225600),
       Event(52, 43, 0, EMPLOYER_A, FIXTURE_WALLET, TOKEN_A + 1, 1767916800),
       Event(53, 44, 0, EMPLOYER_A, FIXTURE_WALLET, TOKEN_A, 1768003200) >>

IssuedAt == 1735689600 \div 86400

ExpiryAt == 1893456000 \div 86400

RequiredSkill == 77110099

OtherSkill == 77110099 + 1

AttestationId == FieldPrime + 44556677

Attestations ==
    { [exists |-> TRUE, subject |-> FIXTURE_WALLET, certHash |-> "0xc1", provider |-> "coursera",
       issuedAt |-> IssuedAt],
      [exists |-> TRUE, subject |-> FIXTURE_WALLET + 1, certHash |-> "0xc1", provider |-> "EDX",
       issuedAt |-> IssuedAt],
      [exists |-> TRUE, subject |-> OTHER_WALLET, certHash |-> "0xc1", provider |-> "coursera",
       issuedAt |-> IssuedAt],
      [exists |-> TRUE, subject |-> FIXTURE_WALLET, certHash |-> "0xc1", provider |-> "linkedin",
       issuedAt |-> IssuedAt],
      [exists |-> FALSE, subject |-> NoAddr, certHash |-> "0x00", provider |-> "", issuedAt |-> 0] }

ArgSets ==
    { [wallet |-> FIXTURE_WALLET, attestationId |-> AttestationId, requiredSkillHash |-> RequiredSkill,
       hasEducationSkillHash |-> h[1], educationSkillHash |-> h[2], minExperienceMonths |-> 12,
       salaryCommitment |-> 998877665, educationExpiryAt |-> x, employmentExperienceMonths |-> e]
      : h \in {<<FALSE, 0>>, <<TRUE, RequiredSkill>>, <<TRUE, OtherSkill>>},
        x \in {ExpiryAt, IssuedAt, IssuedAt - 1},
        e \in {18, 12, 6} }

WitnessEmployerSets == {{EMPLOYER_A}, {EMPLOYER_B}}

WitnessInit ==
    /\ transfers = <<>>
    /\ registeredEmployers \in WitnessEmployerSets
    /\ stablecoinAllowlist = <<TOKEN_A>>
    /\ phase = "collect"
    /\ employment = NotCalled
    /\ window = NotCalled
    /\ attestation \in Attestations
    /\ args \in ArgSets
    /\ built = NotCalled
    /\ proof = NotCalled
    /\ submitted = <<>>
    /\ verification = NotCalled
    /\ LaterIdle

\* One more Transfer log to the wallet is on the chain.
IndexWitnessTransfer ==
    /\ phase = "collect"
    /\ Len(transfers) < Len(WitnessLedger)
    /\ transfers' = Append(transfers, WitnessLedger[Len(transfers) + 1])
    /\ UNCHANGED <<registeredEmployers, stablecoinAllowlist, phase, employment, window, attestation, args,
                   built, proof, submitted, verification, laterVars>>

\* node scripts/zk/generate-inputs-real.js
BuildWitness ==
    /\ phase = "collect"
    /\ phase' = "built"
    /\ built' = [called |-> TRUE,
                 result |-> main(args, attestation, transfers, registeredEmployers, stablecoinAllowlist)]
    /\ UNCHANGED <<transfers, registeredEmployers, stablecoinAllowlist, employment, window, attestation,
                   args, proof, submitted, verification, laterVars>>

\* node scripts/zk/generate-proof.js on the input the builder wrote
GenerateProof ==
    /\ phase = "built"
    /\ built.result.ok
    /\ phase' = "proved"
    /\ proof' = generateProof(built.result.record)
    /\ UNCHANGED <<transfers, registeredEmployers, stablecoinAllowlist, employment, window, attestation,
                   args, built, submitted, verification, laterVars>>

\* The public signals are handed to the verifier as the prover wrote them.
SubmitSignals ==
    /\ phase = "proved"
    /\ proof.made
    /\ phase' = "submitted"
    /\ submitted' = proof.publicSignals
    /\ UNCHANGED <<transfers, registeredEmployers, stablecoinAllowlist, employment, window, attestation,
                   args, built, proof, verification, laterVars>>

\* The values a tamperer puts in place of the signal x: its neighbour, its low bit
\* flipped, its negation in the field, zero, and its alias above the field's order.
TamperValues(x) ==
    {FAdd(x, 1), IF x % 2 = 0 THEN x + 1 ELSE x - 1, FSub(0, x), 0, x + FieldPrime} \ {x}

\* One public signal is replaced after the proof was generated.
TamperSignal ==
    /\ phase = "proved"
    /\ proof.made
    /\ phase' = "submitted"
    /\ \E i \in 1..Len(proof.publicSignals) :
          \E v \in TamperValues(proof.publicSignals[i]) :
              submitted' = [proof.publicSignals EXCEPT ![i] = v]
    /\ UNCHANGED <<transfers, registeredEmployers, stablecoinAllowlist, employment, window, attestation,
                   args, built, proof, verification, laterVars>>

\* CVVerifier.verifyCVProof(proof, publicSignals)
VerifyCVProof ==
    /\ phase = "submitted"
    /\ phase' = "verified"
    /\ verification' = verifyCVProof(proof, submitted)
    /\ UNCHANGED <<transfers, registeredEmployers, stablecoinAllowlist, employment, window, attestation,
                   args, built, proof, submitted, laterVars>>

NextWitness ==
    \/ IndexWitnessTransfer
    \/ BuildWitness
    \/ GenerateProof
    \/ SubmitSignals
    \/ TamperSignal
    \/ VerifyCVProof

SpecWitness == WitnessInit /\ [][NextWitness]_vars

(***************************************************************************)
(* generate-inputs.js: the test vectors of the circuit, with their large   *)
(* literals cut to the width of the model's field.                         *)
(***************************************************************************)
\* { ...r, ...d }
ObjectSpread(r, d) == [f \in DOMAIN r \cup DOMAIN d |-> IF f \in DOMAIN d THEN d[f] ELSE r[f]]

base ==
    [walletHash |-> 120034005,
     salaryCommitment |-> 998877665,
     providerCode |-> 2,
     educationSkillHash |-> RequiredSkill,
     educationIssuedAt |-> IssuedAt,
     educationExpiryAt |-> ExpiryAt,
     educationAttestationId |-> 44556677,
     employmentEmployerHash |-> 222333444,
     employmentTokenHash |-> 111222333,
     employmentMonth0 |-> 24310,
     employmentMonth1 |-> 24311,
     employmentMonth2 |-> 24312,
     month0TransferCount |-> 2,
     month1TransferCount |-> 1,
     month2TransferCount |-> 3,
     employmentExperienceMonths |-> 18,
     policyRequiredSkillHash |-> RequiredSkill,
     policyMinExperienceMonths |-> 12,
     requiredSkillHash |-> RequiredSkill,
     minExperienceMonths |-> 12,
     result |-> 1,
     employerRegistered |-> 1,
     tokenAllowed |-> 1]

\* The certificate witness hash and the two commitments, from the fields of r.
commitmentsOf(r) ==
    LET certificateWitnessHash ==
            Poseidon(<<r.walletHash, r.salaryCommitment, r.providerCode, r.educationSkillHash,
                       r.educationIssuedAt, r.educationExpiryAt, r.educationAttestationId>>)
        total == r.month0TransferCount + r.month1TransferCount + r.month2TransferCount
    IN  [certificateWitnessHash |-> certificateWitnessHash,
         educationCommitment |->
             Poseidon(<<r.walletHash, r.providerCode, certificateWitnessHash, r.educationAttestationId,
                        r.educationIssuedAt>>),
         employmentCommitment |->
             Poseidon(<<r.walletHash, r.employmentEmployerHash, r.employmentTokenHash, r.employmentMonth0,
                        r.employmentMonth1, r.employmentMonth2, total, 1>>)]

\* The four binding squares, from the public values of r.
bindingSquaresOf(r) ==
    [requiredSkillBindingSquare |-> squareInField(r.requiredSkillHash),
     minimumExperienceBindingSquare |-> squareInField(r.minExperienceMonths),
     educationCommitmentBindingSquare |-> squareInField(r.educationCommitment),
     employmentCommitmentBindingSquare |-> squareInField(r.employmentCommitment)]

\* A vector whose hashes, commitments and squares are all computed from its own fields.
consistentVector(r) ==
    LET withHashes == ObjectSpread(r, commitmentsOf(r))
    IN  ObjectSpread(withHashes, bindingSquaresOf(withHashes))

valid == consistentVector(base)

missingMonth ==
    LET employmentMonth2 == base.employmentMonth2 + 2
        moved == [base EXCEPT !.employmentMonth2 = employmentMonth2]
        recomputedEmploymentCommitment == commitmentsOf(moved).employmentCommitment
    IN  [valid EXCEPT !.employmentMonth2 = employmentMonth2,
                      !.employmentCommitment = recomputedEmploymentCommitment,
                      !.employmentCommitmentBindingSquare = squareInField(recomputedEmploymentCommitment)]

invalidCert == [valid EXCEPT !.policyRequiredSkillHash = base.policyRequiredSkillHash + 7]

(***************************************************************************)
(* The witness generator of the circuit on inputs a prover has altered.    *)
(* A prover starts from valid.json or from an input.json the builder       *)
(* wrote, replaces signals of its choice and may recompute the hashes and  *)
(* squares before the witness is generated.                                *)
(***************************************************************************)
MaxForged == 2

\* The values a prover puts in place of the signal f of the input r.
ForgeValues(f, r) ==
    CASE f = "providerCode" -> {0, 1, 3, 4, 5, 6, 7, 2^ProviderBits}
      [] f = "educationIssuedAt" -> {0, r.educationExpiryAt + 1, 2^TimestampBits, FieldPrime - 1}
      [] f = "educationExpiryAt" -> {r.educationIssuedAt - 1, r.educationIssuedAt, 2^TimestampBits}
      [] f = "employmentMonth1" -> {r.employmentMonth1 + 1}
      [] f = "employmentMonth2" -> {r.employmentMonth2 + 2}
      [] f = "month0TransferCount" -> {0}
      [] f = "month1TransferCount" -> {0, 2^CountBits}
      [] f = "month2TransferCount" -> {0}
      [] f = "employmentExperienceMonths" ->
             {r.policyMinExperienceMonths - 1, r.policyMinExperienceMonths, 2^ExperienceBits - 1,
              2^ExperienceBits, FieldPrime - 1}
      [] f = "policyMinExperienceMonths" -> {r.employmentExperienceMonths + 1, FieldPrime - 1}
      [] f = "minExperienceMonths" -> {r.employmentExperienceMonths + 1, FieldPrime - 1}
      [] f = "educationSkillHash" -> {r.educationSkillHash + 7}
      [] f = "policyRequiredSkillHash" -> {r.policyRequiredSkillHash + 7}
      [] f = "requiredSkillHash" -> {r.requiredSkillHash + 7}
      [] f = "certificateWitnessHash" -> {FAdd(r.certificateWitnessHash, 1)}
      [] f = "educationCommitment" -> {FAdd(r.educationCommitment, 1)}
      [] f = "employmentCommitment" -> {FAdd(r.employmentCommitment, 1)}
      [] f = "walletHash" -> {0}
      [] f = "employerRegistered" -> {0}
      [] f = "result" -> {0}

ForgeableSignals ==
    {"providerCode", "educationIssuedAt", "educationExpiryAt", "employmentMonth1", "employmentMonth2",
     "month0TransferCount", "month1TransferCount", "month2TransferCount", "employmentExperienceMonths",
     "policyMinExperienceMonths", "minExperienceMonths", "educationSkillHash", "policyRequiredSkillHash",
     "requiredSkillHash", "certificateWitnessHash", "educationCommitment", "employmentCommitment",
     "walletHash", "employerRegistered", "result"}

CircuitInit ==
    /\ transfers = WitnessLedger
    /\ registeredEmployers = {EMPLOYER_A}
    /\ stablecoinAllowlist = <<TOKEN_A>>
    /\ phase = "collect"
    /\ employment = NotCalled
    /\ window = NotCalled
    /\ \/ /\ attestation = NotCalled
          /\ args = NotCalled
       \/ /\ attestation \in Attestations
          /\ args \in ArgSets
    /\ built = NotCalled
    /\ proof = NotCalled
    /\ submitted = <<>>
    /\ verification = NotCalled
    /\ witnessInput = NotCalled
    /\ forgedFields = {}
    /\ witnessOutcome = NotCalled
    /\ CommitmentIdle
    /\ FdcIdle
    /\ IndexerIdle
    /\ HostIdle

\* The prover takes the vector valid.json.
ReadVector ==
    /\ args = NotCalled
    /\ witnessInput = NotCalled
    /\ witnessInput' = [source |-> "vector", input |-> valid]
    /\ UNCHANGED <<employmentVars, zkVars, forgedFields, witnessOutcome, commitmentVars, fdcVars, indexerVars, hostVars>>

\* The builder is run on the fixture ledger.
RunBuilder ==
    /\ args # NotCalled
    /\ BuildWitness

\* The prover takes the input.json the builder wrote.
ReadBuilderInput ==
    /\ witnessInput = NotCalled
    /\ built # NotCalled
    /\ built.result.ok
    /\ witnessInput' = [source |-> "builder", input |-> built.result.record]
    /\ UNCHANGED <<employmentVars, zkVars, forgedFields, witnessOutcome, commitmentVars, fdcVars, indexerVars, hostVars>>

\* The prover replaces one signal of valid.json.
ForgeField ==
    /\ witnessInput # NotCalled
    /\ witnessOutcome = NotCalled
    /\ witnessInput.source = "vector"
    /\ Cardinality(forgedFields) < MaxForged
    /\ \E f \in ForgeableSignals \ forgedFields :
          \E v \in ForgeValues(f, witnessInput.input) \ {witnessInput.input[f]} :
              /\ witnessInput' = [witnessInput EXCEPT !.input[f] = v]
              /\ forgedFields' = forgedFields \cup {f}
    /\ UNCHANGED <<employmentVars, zkVars, witnessOutcome, commitmentVars, fdcVars, indexerVars, hostVars>>

\* The prover recomputes the hashes, the commitments and the squares from the signals.
RecomputeCommitments ==
    /\ witnessInput # NotCalled
    /\ witnessOutcome = NotCalled
    /\ forgedFields # {}
    /\ witnessInput' = [witnessInput EXCEPT !.input = consistentVector(witnessInput.input)]
    /\ witnessInput' # witnessInput
    /\ UNCHANGED <<employmentVars, zkVars, forgedFields, witnessOutcome, commitmentVars, fdcVars, indexerVars, hostVars>>

\* The prover recomputes the four binding squares only.
RebindSquares ==
    /\ witnessInput # NotCalled
    /\ witnessOutcome = NotCalled
    /\ forgedFields # {}
    /\ witnessInput' = [witnessInput EXCEPT
                           !.input = ObjectSpread(witnessInput.input, bindingSquaresOf(witnessInput.input))]
    /\ witnessInput' # witnessInput
    /\ UNCHANGED <<employmentVars, zkVars, forgedFields, witnessOutcome, commitmentVars, fdcVars, indexerVars, hostVars>>

\* snarkjs wtns calculate: the witness exists when every constraint is satisfied.
GenerateWitness ==
    /\ witnessInput # NotCalled
    /\ witnessOutcome = NotCalled
    /\ witnessOutcome' = [called |-> TRUE, accepted |-> VerifySovereignCV(witnessInput.input)]
    /\ UNCHANGED <<employmentVars, zkVars, witnessInput, forgedFields, commitmentVars, fdcVars, indexerVars, hostVars>>

NextCircuit ==
    \/ ReadVector
    \/ RunBuilder
    \/ ReadBuilderInput
    \/ ForgeField
    \/ RecomputeCommitments
    \/ RebindSquares
    \/ GenerateWitness

SpecCircuit == CircuitInit /\ [][NextCircuit]_vars

(***************************************************************************)
(* Commitments derived more than once, from one tuple of bound fields and  *)
(* from a second tuple that differs from it in at most one field: the      *)
(* service's factCommitment over an employment result, and the education   *)
(* commitment of the witness vectors over their signals.                   *)
(***************************************************************************)
MaxDerivations == 3

\* Results the qualification hands to withCommitment: a strict window, one
\* demo payment and the empty result.
EmploymentTuples ==
    { [wallet |-> getAddress(FIXTURE_WALLET), employer |-> EMPLOYER_A, token |-> TOKEN_A,
       monthsMatched |-> << <<2025, 11>>, <<2025, 12>>, <<2026, 1>> >>, paymentCount |-> 4,
       qualifies |-> TRUE],
      [wallet |-> getAddress(FIXTURE_WALLET), employer |-> EMPLOYER_B, token |-> TOKEN_B,
       monthsMatched |-> << <<2025, 11>> >>, paymentCount |-> 1, qualifies |-> TRUE],
      [wallet |-> getAddress(FIXTURE_WALLET), employer |-> NoAddr, token |-> NoAddr,
       monthsMatched |-> <<>>, paymentCount |-> 0, qualifies |-> FALSE] }

\* The tuples that differ from r in one field, the spelling of an address included.
EmploymentVariants(r) ==
    { [r EXCEPT !.wallet = v] : v \in {getAddress(OTHER_WALLET), toLowerCase(r.wallet)} }
    \cup { [r EXCEPT !.employer = v] : v \in {EMPLOYER_A, EMPLOYER_B, NoAddr, getAddress(EMPLOYER_B)} }
    \cup { [r EXCEPT !.token = v] : v \in {TOKEN_A, TOKEN_B, NoAddr, getAddress(TOKEN_B)} }
    \cup { [r EXCEPT !.monthsMatched[k] = v] :
             k \in 1..Len(r.monthsMatched), v \in {<<2026, 11>>, <<2025, 1>>} }
    \cup { [r EXCEPT !.paymentCount = v] : v \in {r.paymentCount + 1, 10 * r.paymentCount + 1} }
    \cup { [r EXCEPT !.qualifies = ~r.qualifies] }

\* The vectors that differ from base in one signal the education commitment binds,
\* or in the spelling of one (a value and its alias above the field's order).
EducationVariants(r) ==
    { [r EXCEPT !.walletHash = r.walletHash + 1],
      [r EXCEPT !.providerCode = 3],
      [r EXCEPT !.educationSkillHash = r.educationSkillHash + 7],
      [r EXCEPT !.educationExpiryAt = r.educationExpiryAt + 1],
      [r EXCEPT !.educationAttestationId = r.educationAttestationId + 1],
      [r EXCEPT !.educationAttestationId = r.educationAttestationId + FieldPrime],
      [r EXCEPT !.educationIssuedAt = r.educationIssuedAt - 1] }

CommitmentInit ==
    /\ EmploymentIdle
    /\ ZkIdle
    /\ CircuitIdle
    /\ FdcIdle
    /\ IndexerIdle
    /\ HostIdle
    /\ boundFields \in
          { [kind |-> "employment", first |-> r, second |-> v] :
              <<r, v>> \in { x \in EmploymentTuples \X UNION { EmploymentVariants(t) \cup {t} : t \in EmploymentTuples } :
                               x[2] \in EmploymentVariants(x[1]) \cup {x[1]} } }
          \cup { [kind |-> "education", first |-> base, second |-> v] : v \in EducationVariants(base) \cup {base} }
    /\ derived = <<>>

\* The commitment over the bound fields r and the payload it hashes.
derive(kind, r) ==
    IF kind = "employment"
    THEN [payload |-> joinPayload(commitmentPayload(r)), commitment |-> withCommitment(r).factCommitment]
    ELSE [payload |-> <<toFieldObject(r.walletHash), toFieldObject(r.providerCode),
                        commitmentsOf(r).certificateWitnessHash, toFieldObject(r.educationAttestationId),
                        toFieldObject(r.educationIssuedAt)>>,
          commitment |-> commitmentsOf(r).educationCommitment]

\* One more derivation of the commitment of one of the two tuples.
DeriveCommitment(which) ==
    /\ Len(derived) < MaxDerivations
    /\ derived' = Append(derived, [of |-> which, result |-> derive(boundFields.kind, boundFields[which])])
    /\ UNCHANGED <<employmentVars, zkVars, circuitVars, boundFields, fdcVars, indexerVars, hostVars>>

NextCommitment == \E which \in {"first", "second"} : DeriveCommitment(which)

SpecCommitment == CommitmentInit /\ [][NextCommitment]_vars

(***************************************************************************)
(* The FDC education service (services/fdc). Times are in units of five    *)
(* seconds. The four timing constants are read from the environment; the   *)
(* model runs the configuration FDC_STATUS_TIMEOUT_MS = 30000,             *)
(* FDC_POLL_INTERVAL_MS = 10000, FDC_POLL_INITIAL_BACKOFF_MS = 5000 and    *)
(* FDC_POLL_MAX_BACKOFF_MS = 20000. A handler that awaits an external call *)
(* is one action up to the call and one action from its return; the call a *)
(* request's handler waits for is in `awaiting`. The repository holds two  *)
(* entry points: the one that polls the data-availability layer and writes *)
(* the attestation ("poller"), and the one that stands in for both with a  *)
(* timer ("simulated").                                                    *)
(***************************************************************************)
REQUEST_TIMEOUT_MS == 6
POLL_INTERVAL_MS == 2
INITIAL_BACKOFF_MS == 1
MAX_BACKOFF_MS == 4

MaxRequests == 2
SubmitDeadline == 1
MaxLatency == 2
MaxRestarts == 1

\* No request is open at this time or later.
Horizon == SubmitDeadline + REQUEST_TIMEOUT_MS + 2 * POLL_INTERVAL_MS + 3 * MaxLatency

RequestIds == 1..MaxRequests

Certificates == {"cert-1"}

NoRequest == [status |-> "none"]

NoCall == [call |-> "none"]

NoAttestation == <<>>

computeBackoffMs(attempt) ==
    LET exponent == IF attempt - 1 > 0 THEN attempt - 1 ELSE 0
        power == 2^exponent
        scaled == INITIAL_BACKOFF_MS * (IF power > 1 THEN power ELSE 1)
    IN  Min(MAX_BACKOFF_MS, scaled)

statusForApi(status) ==
    IF status = "accepted" \/ status = "pending" THEN "pending"
    ELSE IF status = "verified" THEN "verified"
    ELSE IF status = "timeout" THEN "timeout"
    ELSE "failed"

\* keccak256(solidityPacked(["bytes", "uint64"], [verifierRequestBytes, fdcVotingRoundId]))
deriveAttestationId(verifierRequestBytes, fdcVotingRoundId) ==
    <<"keccak256", verifierRequestBytes, fdcVotingRoundId>>

\* { ...current, ...patch } of updateRequest
updateRequest(current, patch) == ObjectSpread(current, patch)

\* processRequest without its timeout window: an open request is polled for as long as it is due.
processRequestStartNoTimeout(busy, current, now) ==
    IF busy THEN [request |-> current, call |-> NoCall, entered |-> FALSE]
    ELSE IF current = NoRequest THEN [request |-> current, call |-> NoCall, entered |-> TRUE]
    ELSE IF current.status \in {"verified", "failed", "timeout"}
         THEN [request |-> current, call |-> NoCall, entered |-> TRUE]
    ELSE IF current.nextPollAt > now THEN [request |-> current, call |-> NoCall, entered |-> TRUE]
    ELSE IF current.verifierRequestBytes = "" \/ current.fdcVotingRoundId = -1
         THEN [request |-> updateRequest(current, [status |-> "failed",
                                                   reason |-> "missing_fdc_request_metadata"]),
               call |-> NoCall, entered |-> TRUE]
    ELSE [request |-> current,
          call |-> [call |-> "poll", record |-> current, now |-> now, since |-> now],
          entered |-> TRUE]

\* processRequest without the test of processingRequestIds.
processRequestStartUnguarded(busy, current, now) ==
    IF current = NoRequest THEN [request |-> current, call |-> NoCall, entered |-> TRUE]
    ELSE IF current.status \in {"verified", "failed", "timeout"}
         THEN [request |-> current, call |-> NoCall, entered |-> TRUE]
    ELSE IF now - current.createdAt > REQUEST_TIMEOUT_MS
         THEN [request |-> updateRequest(current, [status |-> "timeout", reason |-> "fdc_verification_timeout"]),
               call |-> NoCall, entered |-> TRUE]
    ELSE IF current.nextPollAt > now THEN [request |-> current, call |-> NoCall, entered |-> TRUE]
    ELSE IF current.verifierRequestBytes = "" \/ current.fdcVotingRoundId = -1
         THEN [request |-> updateRequest(current, [status |-> "failed",
                                                   reason |-> "missing_fdc_request_metadata"]),
               call |-> NoCall, entered |-> TRUE]
    ELSE [request |-> current,
          call |-> [call |-> "poll", record |-> current, now |-> now, since |-> now],
          entered |-> TRUE]

\* processRequest up to its first await: the request as it leaves it and the
\* call it then waits for (none when it has returned).
processRequestStart(busy, current, now) ==
    IF busy THEN [request |-> current, call |-> NoCall, entered |-> FALSE]
    ELSE IF current = NoRequest THEN [request |-> current, call |-> NoCall, entered |-> TRUE]
    ELSE IF current.status \in {"verified", "failed", "timeout"}
         THEN [request |-> current, call |-> NoCall, entered |-> TRUE]
    ELSE IF now - current.createdAt > REQUEST_TIMEOUT_MS
         THEN [request |-> updateRequest(current, [status |-> "timeout", reason |-> "fdc_verification_timeout"]),
               call |-> NoCall, entered |-> TRUE]
    ELSE IF current.nextPollAt > now THEN [request |-> current, call |-> NoCall, entered |-> TRUE]
    ELSE IF current.verifierRequestBytes = "" \/ current.fdcVotingRoundId = -1
         THEN [request |-> updateRequest(current, [status |-> "failed",
                                                   reason |-> "missing_fdc_request_metadata"]),
               call |-> NoCall, entered |-> TRUE]
    ELSE [request |-> current,
          call |-> [call |-> "poll", record |-> current, now |-> now, since |-> now],
          entered |-> TRUE]

\* processAllOpenRequests: processRequest of every pending or accepted request.
\* An execution that reaches an await keeps its id in processingRequestIds; one
\* that returns before has removed it again; a handler that waits for
\* queueWeb2JsonVerification goes on waiting.
processAllOpenRequests(store, busyIds, calls, now) ==
    LET open == {id \in RequestIds : store[id].status \in {"pending", "accepted"}}
        started(id) == processRequestStart(id \in busyIds, store[id], now)
        waits == {id \in open : started(id).entered /\ started(id).call # NoCall}
    IN  [store |-> [id \in RequestIds |-> IF id \in open THEN started(id).request ELSE store[id]],
         calls |-> [id \in RequestIds |-> IF id \in waits THEN started(id).call ELSE calls[id]],
         processing |-> busyIds \cup waits]

InFlight(calls) == {id \in RequestIds : calls[id].call \in {"poll", "write"}}

\* A request an earlier run of the service verified, as loadStore reads it from disk.
StoredRecord ==
    [status |-> "verified", certHash |-> "cert-1", createdAt |-> 0, pollAttempts |-> 1, nextPollAt |-> 0,
     verifierRequestBytes |-> "cert-1", fdcVotingRoundId |-> 0,
     attestationId |-> deriveAttestationId("cert-1", 0), reason |-> ""]

\* The store at startup: one free request id, and requests of earlier runs.
LoadedStore == [id \in RequestIds |-> IF id = 1 THEN NoRequest ELSE StoredRecord]

FdcStart ==
    /\ EmploymentIdle
    /\ ZkIdle
    /\ CircuitIdle
    /\ CommitmentIdle
    /\ IndexerIdle
    /\ HostIdle
    /\ clock = 0
    /\ nextPollerRun = POLL_INTERVAL_MS
    /\ processingRequestIds = {}
    /\ awaiting = [id \in RequestIds |-> NoCall]
    /\ restarts = 0

\* The polling entry point reads its store from disk; the other starts with an empty one.
FdcInit ==
    /\ FdcStart
    /\ \/ /\ fdcService = "poller"
          /\ requests = LoadedStore
          /\ attestationStorage = {StoredRecord.attestationId}
       \/ /\ fdcService = "simulated"
          /\ requests = [id \in RequestIds |-> NoRequest]
          /\ attestationStorage = {}

FdcOthersUnchanged ==
    UNCHANGED <<employmentVars, zkVars, circuitVars, commitmentVars, indexerVars, hostVars>>

\* POST /fdc/education/submit, up to the call of queueWeb2JsonVerification.
SubmitEducation(certificate) ==
    /\ fdcService = "poller"
    /\ clock < SubmitDeadline
    /\ \E id \in RequestIds :
          /\ requests[id] = NoRequest
          /\ \A other \in RequestIds : other < id => requests[other] # NoRequest
          /\ requests' = [requests EXCEPT ![id] =
                 [status |-> "pending", certHash |-> certificate, createdAt |-> clock, pollAttempts |-> 0,
                  nextPollAt |-> clock, verifierRequestBytes |-> "", fdcVotingRoundId |-> -1,
                  attestationId |-> NoAttestation, reason |-> ""]]
          /\ awaiting' = [awaiting EXCEPT ![id] = [call |-> "queue", since |-> clock]]
    /\ UNCHANGED <<fdcService, clock, nextPollerRun, processingRequestIds, attestationStorage, restarts>>
    /\ FdcOthersUnchanged

\* queueWeb2JsonVerification returns, and the submit handler runs to its end:
\* on acceptance it stores the verifier's metadata and calls processRequest.
QueueReturns(id, accepted) ==
    /\ fdcService = "poller"
    /\ awaiting[id].call = "queue"
    /\ LET now == requests[id].createdAt
       IN  IF ~accepted
           THEN /\ requests' = [requests EXCEPT ![id] =
                       updateRequest(@, [status |-> "failed", reason |-> "fdc_request_error",
                                         pollAttempts |-> 1, nextPollAt |-> now + MAX_BACKOFF_MS])]
                /\ awaiting' = [awaiting EXCEPT ![id] = NoCall]
                /\ processingRequestIds' = processingRequestIds
           ELSE LET stored == updateRequest(requests[id],
                                  [status |-> "accepted", verifierRequestBytes |-> requests[id].certHash,
                                   fdcVotingRoundId |-> clock, reason |-> "", pollAttempts |-> 0,
                                   nextPollAt |-> now])
                    started == processRequestStart(id \in processingRequestIds, stored, clock)
                IN  /\ requests' = [requests EXCEPT ![id] = started.request]
                    /\ awaiting' = [awaiting EXCEPT ![id] = started.call]
                    /\ processingRequestIds' =
                           IF started.entered /\ started.call # NoCall
                           THEN processingRequestIds \cup {id} ELSE processingRequestIds
    /\ UNCHANGED <<fdcService, clock, nextPollerRun, attestationStorage, restarts>>
    /\ FdcOthersUnchanged

\* setInterval fires processAllOpenRequests.
PollerRun ==
    /\ fdcService = "poller"
    /\ clock = nextPollerRun
    /\ LET after == processAllOpenRequests(requests, processingRequestIds, awaiting, clock)
       IN  /\ requests' = after.store
           /\ awaiting' = after.calls
           /\ processingRequestIds' = after.processing
    /\ nextPollerRun' = clock + POLL_INTERVAL_MS
    /\ UNCHANGED <<fdcService, clock, attestationStorage, restarts>>
    /\ FdcOthersUnchanged

\* pollWeb2JsonVerification returns, and processRequest runs to its next await or its end.
PollReturns(id, state) ==
    /\ fdcService = "poller"
    /\ awaiting[id].call = "poll"
    /\ LET record == awaiting[id].record
           now == awaiting[id].now
       IN  IF state = "pending"
           THEN /\ requests' = [requests EXCEPT ![id] =
                       updateRequest(@, [status |-> "accepted", pollAttempts |-> record.pollAttempts + 1,
                                         nextPollAt |-> now + computeBackoffMs(record.pollAttempts + 1),
                                         reason |-> "proof_not_available_yet"])]
                /\ awaiting' = [awaiting EXCEPT ![id] = NoCall]
           ELSE IF state = "failed"
           THEN /\ requests' = [requests EXCEPT ![id] =
                       updateRequest(@, [status |-> "failed", reason |-> "da_error",
                                         pollAttempts |-> record.pollAttempts + 1,
                                         nextPollAt |-> now + MAX_BACKOFF_MS])]
                /\ awaiting' = [awaiting EXCEPT ![id] = NoCall]
           ELSE IF record.certHash = ""
           THEN /\ requests' = [requests EXCEPT ![id] =
                       updateRequest(@, [status |-> "failed", reason |-> "missing_cert_hash"])]
                /\ awaiting' = [awaiting EXCEPT ![id] = NoCall]
           ELSE /\ requests' = requests
                /\ awaiting' = [awaiting EXCEPT ![id] =
                       [call |-> "write", record |-> record, now |-> now, since |-> clock,
                        attestationId |-> deriveAttestationId(record.verifierRequestBytes,
                                                              record.fdcVotingRoundId)]]
    /\ processingRequestIds' =
           IF awaiting'[id] = NoCall THEN processingRequestIds \ {id} ELSE processingRequestIds
    /\ UNCHANGED <<fdcService, clock, nextPollerRun, attestationStorage, restarts>>
    /\ FdcOthersUnchanged

\* writeEducationAttestation returns or throws, and processRequest runs to its end.
\* The attestation is found ("exists"), recorded ("written") or the call throws.
WriteReturns(id, outcome) ==
    /\ fdcService = "poller"
    /\ awaiting[id].call = "write"
    /\ LET record == awaiting[id].record
           now == awaiting[id].now
           attestationId == awaiting[id].attestationId
       IN  /\ outcome = "exists" => attestationId \in attestationStorage
           /\ outcome = "written" => attestationId \notin attestationStorage
           /\ attestationStorage' =
                  IF outcome = "written" THEN attestationStorage \cup {attestationId}
                  ELSE attestationStorage
           /\ requests' = [requests EXCEPT ![id] =
                  IF outcome = "thrown"
                  THEN updateRequest(@, [status |-> "failed", reason |-> "attestation_write_failed",
                                         pollAttempts |-> record.pollAttempts + 1,
                                         nextPollAt |-> now + MAX_BACKOFF_MS])
                  ELSE updateRequest(@, [status |-> "verified", attestationId |-> attestationId,
                                         fdcVotingRoundId |-> record.fdcVotingRoundId,
                                         reason |-> IF outcome = "exists"
                                                    THEN "attestation_already_recorded" ELSE "",
                                         pollAttempts |-> record.pollAttempts + 1, nextPollAt |-> now])]
    /\ awaiting' = [awaiting EXCEPT ![id] = NoCall]
    /\ processingRequestIds' = processingRequestIds \ {id}
    /\ UNCHANGED <<fdcService, clock, nextPollerRun, restarts>>
    /\ FdcOthersUnchanged

\* The process is started again: the handlers in flight are gone, the store is
\* read from disk and processAllOpenRequests runs before the interval is set.
RestartService ==
    /\ fdcService = "poller"
    /\ restarts < MaxRestarts
    /\ restarts' = restarts + 1
    /\ LET after == processAllOpenRequests(requests, {}, [id \in RequestIds |-> NoCall], clock)
           sent == {awaiting[id].attestationId : id \in {i \in RequestIds : awaiting[i].call = "write"}}
       IN  /\ requests' = after.store
           /\ awaiting' = after.calls
           /\ \E landed \in SUBSET sent : attestationStorage' = attestationStorage \cup landed
           /\ processingRequestIds' = after.processing
    /\ nextPollerRun' = clock + POLL_INTERVAL_MS
    /\ UNCHANGED <<fdcService, clock>>
    /\ FdcOthersUnchanged

\* Five seconds pass. A timer that is due fires first, and a call returns
\* within MaxLatency ticks; time is followed while a request is open.
Tick ==
    /\ fdcService = "poller" => clock < nextPollerRun
    /\ \A id \in RequestIds : awaiting[id] # NoCall => clock - awaiting[id].since < MaxLatency
    /\ \/ clock < SubmitDeadline
       \/ /\ fdcService = "poller"
          /\ clock < Horizon
          /\ \E id \in RequestIds : requests[id].status \in {"pending", "accepted"}
    /\ clock' = clock + 1
    /\ UNCHANGED <<fdcService, requests, nextPollerRun, processingRequestIds, awaiting, attestationStorage,
                   restarts>>
    /\ FdcOthersUnchanged

\* POST /fdc/education/submit of the entry point with the timer, up to the queue call.
SimulatedSubmit(certificate) ==
    /\ fdcService = "simulated"
    /\ clock < SubmitDeadline
    /\ \E id \in RequestIds :
          /\ requests[id] = NoRequest
          /\ \A other \in RequestIds : other < id => requests[other] # NoRequest
          /\ requests' = [requests EXCEPT ![id] =
                 [status |-> "pending", certHash |-> certificate, createdAt |-> clock,
                  attestationId |-> NoAttestation, reason |-> ""]]
          /\ awaiting' = [awaiting EXCEPT ![id] = [call |-> "queue", since |-> clock]]
    /\ UNCHANGED <<fdcService, clock, nextPollerRun, processingRequestIds, attestationStorage, restarts>>
    /\ FdcOthersUnchanged

\* queueWeb2JsonVerification returns; on acceptance the handler sets the timer.
SimulatedQueueReturns(id, accepted) ==
    /\ fdcService = "simulated"
    /\ awaiting[id].call = "queue"
    /\ requests' = [requests EXCEPT ![id] =
           IF accepted THEN updateRequest(@, [status |-> "accepted"])
           ELSE updateRequest(@, [status |-> "failed", reason |-> "fdc_request_error"])]
    /\ awaiting' = [awaiting EXCEPT ![id] =
           IF accepted THEN [call |-> "timer", since |-> clock] ELSE NoCall]
    /\ UNCHANGED <<fdcService, clock, nextPollerRun, processingRequestIds, attestationStorage, restarts>>
    /\ FdcOthersUnchanged

\* The timer of 1500 ms fires: the request is marked verified with an
\* attestation id and a transaction hash spelled from the request id.
SimulatedCompletion(id) ==
    /\ fdcService = "simulated"
    /\ awaiting[id].call = "timer"
    /\ requests' = [requests EXCEPT ![id] =
           updateRequest(@, [status |-> "verified", attestationId |-> <<"requestId", id>>, reason |-> ""])]
    /\ awaiting' = [awaiting EXCEPT ![id] = NoCall]
    /\ UNCHANGED <<fdcService, clock, nextPollerRun, processingRequestIds, attestationStorage, restarts>>
    /\ FdcOthersUnchanged

NextPoller ==
    \/ \E certificate \in Certificates : SubmitEducation(certificate)
    \/ \E id \in RequestIds, accepted \in BOOLEAN : QueueReturns(id, accepted)
    \/ PollerRun
    \/ \E id \in RequestIds, state \in {"pending", "failed", "verified"} : PollReturns(id, state)
    \/ \E id \in RequestIds, outcome \in {"exists", "written", "thrown"} : WriteReturns(id, outcome)
    \/ RestartService
    \/ Tick

NextFdc ==
    \/ NextPoller
    \/ \E certificate \in Certificates : SimulatedSubmit(certificate)
    \/ \E id \in RequestIds, accepted \in BOOLEAN : SimulatedQueueReturns(id, accepted)
    \/ \E id \in RequestIds : SimulatedCompletion(id)

SpecFdc == FdcInit /\ [][NextFdc]_vars

\* The polling entry point with one free request id, the interval timer
\* firing, time passing and every external call returning.
FdcPollerInit ==
    /\ FdcStart
    /\ fdcService = "poller"
    /\ requests = LoadedStore
    /\ attestationStorage = {StoredRecord.attestationId}

FdcFairness ==
    /\ WF_vars(Tick)
    /\ WF_vars(PollerRun)
    /\ \A id \in RequestIds :
          /\ WF_vars(\E accepted \in BOOLEAN : QueueReturns(id, accepted))
          /\ WF_vars(\E state \in {"pending", "failed", "verified"} : PollReturns(id, state))
          /\ WF_vars(\E outcome \in {"exists", "written", "thrown"} : WriteReturns(id, outcome))

SpecFdcPoller == FdcPollerInit /\ [][NextPoller]_vars /\ FdcFairness




(***************************************************************************)
(* The transfer indexers of the Plasma service: fetchTransfersFromRpc,     *)
(* which merges the logs it fetches with the wallet's entry of the cache   *)
(* on disk, and fetchTransfersFromFallback, which reads a list from an     *)
(* HTTP API.  Block numbers are small, and PLASMA_REORG_DEPTH and          *)
(* PLASMA_LOOKBACK_BLOCKS are a configuration of the environment in the    *)
(* same scale.                                                             *)
(***************************************************************************)
PLASMA_REORG_DEPTH == 2
PLASMA_LOOKBACK_BLOCKS == 4

MaxHead == 6
MaxPayload == 2

Max(a, b) == IF a > b THEN a ELSE b

NoCache == [cached |-> FALSE]

\* The allowlists of the configuration, in the iteration order of the Set.
IndexerAllowlists == {<<TOKEN_A>>, <<TOKEN_A, TOKEN_B>>}

\* PLASMA_START_BLOCK: unset, or an explicit block number.
StartBlocks == {[set |-> FALSE], [set |-> TRUE, value |-> 1]}

BlockTimestamp(blockNumber) == 1761955200 + 12 * blockNumber

Log(tx, blockNumber, logIndex, from, to, token) ==
    Event(tx, blockNumber, logIndex, from, to, token, BlockTimestamp(blockNumber))

\* The Transfer logs of the chain, in block order.  In history 1 a
\* reorganisation has moved transaction 42 from block 3 to block 4.
ChainLogs(history) ==
    IF history = 0
    THEN << Log(40, 1, 0, EMPLOYER_A, FIXTURE_WALLET, TOKEN_A),
            Log(41, 2, 1, EMPLOYER_A, FIXTURE_WALLET, TOKEN_B),
            Log(42, 3, 0, EMPLOYER_B, FIXTURE_WALLET, TOKEN_A),
            Log(43, 3, 2, EMPLOYER_A, OTHER_WALLET, TOKEN_A),
            Log(44, 5, 0, EMPLOYER_A, FIXTURE_WALLET, TOKEN_A) >>
    ELSE << Log(40, 1, 0, EMPLOYER_A, FIXTURE_WALLET, TOKEN_A),
            Log(41, 2, 1, EMPLOYER_A, FIXTURE_WALLET, TOKEN_B),
            Log(43, 3, 2, EMPLOYER_A, OTHER_WALLET, TOKEN_A),
            Log(42, 4, 0, EMPLOYER_B, FIXTURE_WALLET, TOKEN_A),
            Log(44, 5, 0, EMPLOYER_A, FIXTURE_WALLET, TOKEN_A) >>

\* transferKey: the lower-case hash, the log index in decimal and the lower-case token.
transferKey(transfer) ==
    <<hashToLowerCase(transfer.txHash), DecimalString(transfer.logIndex), toLowerCase(transfer.token)>>

\* Map.prototype.set on the values of a Map in insertion order: a key already
\* present keeps its place and takes the new value.
RECURSIVE MapSet(_, _)
MapSet(values, transfer) ==
    IF values = <<>> THEN <<transfer>>
    ELSE IF transferKey(Head(values)) = transferKey(transfer) THEN <<transfer>> \o Tail(values)
         ELSE <<Head(values)>> \o MapSet(Tail(values), transfer)

RECURSIVE DedupeLoop(_, _)
DedupeLoop(ts, values) ==
    IF ts = <<>> THEN values ELSE DedupeLoop(Tail(ts), MapSet(values, Head(ts)))

dedupeTransfers(ts) == sortTransfers(DedupeLoop(ts, <<>>))

parseStartBlock(explicit, latestBlock) ==
    IF explicit.set THEN explicit.value ELSE Max(0, latestBlock - PLASMA_LOOKBACK_BLOCKS)

\* fetchLogsByChunks: the logs of one token to the wallet in the block range.
fetchLogsByChunks(history, token, wallet, fromBlock, toBlock) ==
    LET Matches(l) ==
            /\ toLowerCase(l.token) = toLowerCase(token)
            /\ toLowerCase(l.to) = toLowerCase(wallet)
            /\ l.blockNumber >= fromBlock
            /\ l.blockNumber <= toBlock
    IN  SelectSeq(ChainLogs(history), Matches)

RECURSIVE AllLogs(_, _, _, _, _)
AllLogs(history, tokens, wallet, fromBlock, toBlock) ==
    IF tokens = <<>> THEN <<>>
    ELSE fetchLogsByChunks(history, Head(tokens), wallet, fromBlock, toBlock)
         \o AllLogs(history, Tail(tokens), wallet, fromBlock, toBlock)

\* The TransferEvent pushed for a log.
FetchedTransfer(l) ==
    [l EXCEPT !.from = getAddress(@), !.to = getAddress(@), !.token = getAddress(@)]

fetchTransfersFromRpc(existing, history, latestBlock, explicit, allowlist) ==
    LET reorgDepth == Max(1, PLASMA_REORG_DEPTH)
        defaultStartBlock == parseStartBlock(explicit, latestBlock)
        cacheUsable == existing.cached
        previousTransfers == IF cacheUsable THEN existing.transfers ELSE <<>>
        previousSyncedBlock == IF cacheUsable THEN existing.latestSyncedBlock ELSE 0 - 1
        requeryFromBlock ==
            IF previousSyncedBlock >= 0
            THEN Max(defaultStartBlock, Max(0, previousSyncedBlock - reorgDepth + 1))
            ELSE defaultStartBlock
        Earlier(t) == t.blockNumber < requeryFromBlock
        keepExisting == SelectSeq(previousTransfers, Earlier)
        allLogs == AllLogs(history, allowlist, FIXTURE_WALLET, requeryFromBlock, latestBlock)
        fetchedTransfers == [i \in 1..Len(allLogs) |-> FetchedTransfer(allLogs[i])]
        merged == dedupeTransfers(keepExisting \o fetchedTransfers)
    IN  [merged |-> merged,
         cache |-> [cached |-> TRUE, latestSyncedBlock |-> latestBlock, transfers |-> merged]]

\* The items the fallback API can answer with: a transfer, the same transfer
\* spelled in upper case, a transfer of another token at the same block and
\* log index, a transfer to another wallet, and an item without a timestamp.
FallbackItems ==
    { Log(40, 1, 0, EMPLOYER_A, FIXTURE_WALLET, TOKEN_A),
      Log(UpperCase(40), 1, 0, EMPLOYER_A, getAddress(FIXTURE_WALLET), getAddress(TOKEN_A)),
      Log(41, 2, 1, EMPLOYER_A, FIXTURE_WALLET, TOKEN_B),
      Log(45, 2, 1, EMPLOYER_B, FIXTURE_WALLET, TOKEN_A),
      Log(43, 3, 2, EMPLOYER_A, OTHER_WALLET, TOKEN_A),
      [txHash |-> 44, blockNumber |-> 5, logIndex |-> 0, from |-> EMPLOYER_A,
       to |-> FIXTURE_WALLET, token |-> TOKEN_A, amount |-> 1000] }

RECURSIVE Payloads(_)
Payloads(n) ==
    IF n = 0 THEN {<<>>}
    ELSE LET shorter == Payloads(n - 1)
         IN  shorter \cup {Append(p, item) : p \in {q \in shorter : Len(q) = n - 1}, item \in FallbackItems}

normalizeTransfer(value) ==
    IF DOMAIN value # {"txHash", "blockNumber", "logIndex", "from", "to", "token", "amount", "timestamp"}
    THEN [error |-> "fallback_transfer_missing_fields"]
    ELSE [value EXCEPT !.from = getAddress(@), !.to = getAddress(@), !.token = getAddress(@)]

\* The comparator of the earlier fallback indexer: block, log index, hash.
compareTransfersNoToken(a, b) ==
    IF a.blockNumber # b.blockNumber THEN a.blockNumber - b.blockNumber
    ELSE IF a.logIndex # b.logIndex THEN a.logIndex - b.logIndex
         ELSE hashToLowerCase(a.txHash) - hashToLowerCase(b.txHash)

RECURSIVE InsertSortedNoToken(_, _)
InsertSortedNoToken(x, s) ==
    IF s = <<>> THEN <<x>>
    ELSE IF compareTransfersNoToken(x, Head(s)) < 0 THEN <<x>> \o s
         ELSE <<Head(s)>> \o InsertSortedNoToken(x, Tail(s))

RECURSIVE SortLoopNoToken(_, _)
SortLoopNoToken(s, acc) ==
    IF s = <<>> THEN acc ELSE SortLoopNoToken(Tail(s), InsertSortedNoToken(Head(s), acc))

\* The earlier fallback indexer: transfers to the wallet, ordered by block,
\* log index and hash, every item kept.
fetchTransfersFromFallbackUnkeyed(items, wallet, allowlist) ==
    LET normalized == [i \in 1..Len(items) |-> normalizeTransfer(items[i])]
        Failed(i) == "error" \in DOMAIN normalized[i]
        ToWallet(t) == toLowerCase(t.to) = toLowerCase(wallet)
    IN  IF \E i \in 1..Len(items) : Failed(i)
        THEN normalized[CHOOSE i \in 1..Len(items) : Failed(i) /\ \A j \in 1..(i - 1) : ~Failed(j)]
        ELSE [transfers |-> SortLoopNoToken(SelectSeq(normalized, ToWallet), <<>>)]

fetchTransfersFromFallback(items, wallet, allowlist) ==
    LET normalized == [i \in 1..Len(items) |-> normalizeTransfer(items[i])]
        Failed(i) == "error" \in DOMAIN normalized[i]
        Listed(t) ==
            /\ toLowerCase(t.to) = toLowerCase(wallet)
            /\ toLowerCase(t.token) \in Range(allowlist)
    IN  IF \E i \in 1..Len(items) : Failed(i)
        THEN normalized[CHOOSE i \in 1..Len(items) : Failed(i) /\ \A j \in 1..(i - 1) : ~Failed(j)]
        ELSE [transfers |-> sortTransfers(DedupeLoop(SelectSeq(normalized, Listed), <<>>))]

IndexerOthersUnchanged ==
    UNCHANGED <<employmentVars, zkVars, circuitVars, commitmentVars, fdcVars, hostVars>>

IndexerInit ==
    /\ EmploymentIdle
    /\ ZkIdle
    /\ CircuitIdle
    /\ CommitmentIdle
    /\ FdcIdle
    /\ HostIdle
    /\ chainHead = 1
    /\ fork = 0
    /\ walletCache = NoCache
    /\ indexed = NotCalled

\* The chain grows by one block.
MineBlock ==
    /\ chainHead < MaxHead
    /\ chainHead' = chainHead + 1
    /\ UNCHANGED <<fork, walletCache, indexed>>
    /\ IndexerOthersUnchanged

\* The chain is reorganised: transaction 42 moves to a later block.
Reorganise ==
    /\ fork = 0
    /\ chainHead >= 4
    /\ fork' = 1
    /\ UNCHANGED <<chainHead, walletCache, indexed>>
    /\ IndexerOthersUnchanged

\* fetchTransfersFromRpc for the wallet.
SyncRpc(explicit, allowlist) ==
    /\ LET r == fetchTransfersFromRpc(walletCache, fork, chainHead, explicit, allowlist)
       IN  /\ walletCache' = r.cache
           /\ indexed' = [called |-> TRUE, source |-> "rpc",
                          query |-> <<fork, chainHead, explicit, allowlist>>,
                          transfers |-> r.merged]
    /\ UNCHANGED <<chainHead, fork>>
    /\ IndexerOthersUnchanged

\* fetchTransfersFromFallback for the wallet: the API answers with a payload.
SyncFallback(items, allowlist) ==
    /\ LET r == fetchTransfersFromFallback(items, FIXTURE_WALLET, allowlist)
       IN  indexed' = IF "error" \in DOMAIN r
                      THEN [called |-> TRUE, source |-> "fallback", error |-> r.error]
                      ELSE [called |-> TRUE, source |-> "fallback", transfers |-> r.transfers]
    /\ UNCHANGED <<chainHead, fork, walletCache>>
    /\ IndexerOthersUnchanged

\* The cache file is removed or cannot be parsed: loadRaw answers with no wallets.
LoseCache ==
    /\ walletCache # NoCache
    /\ walletCache' = NoCache
    /\ UNCHANGED <<chainHead, fork, indexed>>
    /\ IndexerOthersUnchanged

NextIndexer ==
    \/ MineBlock
    \/ Reorganise
    \/ \E explicit \in StartBlocks, allowlist \in IndexerAllowlists : SyncRpc(explicit, allowlist)
    \/ \E items \in Payloads(MaxPayload), allowlist \in IndexerAllowlists : SyncFallback(items, allowlist)
    \/ LoseCache

SpecIndexer == IndexerInit /\ [][NextIndexer]_vars


(***************************************************************************)
(* The contracts: AttestationStorage, EmployerRegistry, CVVerifier and the *)
(* two verifiers CVVerifier can forward to. A transaction that reverts     *)
(* leaves the storage as it was and emits no event. A run deploys one of   *)
(* the three contracts, as the tests do, and sends it transactions; the    *)
(* owner of a contract is the account "owner" its constructor names.       *)
(***************************************************************************)
Senders == {"owner", "recruiter"}

AttestationIds == {"0xa1", "0xa2"}

Subjects == {NoAddr, FIXTURE_WALLET, OTHER_WALLET}

CertHashes == {"0xc1", "0xc2"}

ProviderNames == {"", "udemy"}

Verifiers == {"0x0", "MockGroth16Verifier", "Groth16VerifierAdapter"}

\* The value of a storage slot that was never written.
NoEducation == [subject |-> NoAddr, certHash |-> "0x00", provider |-> "", issuedAt |-> 0, exists |-> FALSE]

Revert(error) == [reverted |-> TRUE, error |-> error]

\* Ownable.onlyOwner
onlyOwner(sender) == sender = "owner"

\* recordEducationAttestation without the check of exists.
recordEducationAttestationOverwrite(store, sender, attestationId, subject, certHash, provider, issuedAt) ==
    IF ~onlyOwner(sender) THEN Revert("OwnableUnauthorizedAccount")
    ELSE IF subject = NoAddr THEN Revert("InvalidSubject")
    ELSE IF provider = "" THEN Revert("InvalidProvider")
    ELSE [reverted |-> FALSE,
          storage |-> [store EXCEPT ![attestationId] =
                          [subject |-> subject, certHash |-> certHash, provider |-> provider,
                           issuedAt |-> issuedAt, exists |-> TRUE]],
          events |-> << [name |-> "EducationAttested", attestationId |-> attestationId,
                         subject |-> subject, certHash |-> certHash, provider |-> provider,
                         issuedAt |-> issuedAt] >>]

\* AttestationStorage.recordEducationAttestation
recordEducationAttestation(store, sender, attestationId, subject, certHash, provider, issuedAt) ==
    IF ~onlyOwner(sender) THEN Revert("OwnableUnauthorizedAccount")
    ELSE IF subject = NoAddr THEN Revert("InvalidSubject")
    ELSE IF provider = "" THEN Revert("InvalidProvider")
    ELSE IF store[attestationId].exists THEN Revert("DuplicateAttestation")
    ELSE [reverted |-> FALSE,
          storage |-> [store EXCEPT ![attestationId] =
                          [subject |-> subject, certHash |-> certHash, provider |-> provider,
                           issuedAt |-> issuedAt, exists |-> TRUE]],
          events |-> << [name |-> "EducationAttested", attestationId |-> attestationId,
                         subject |-> subject, certHash |-> certHash, provider |-> provider,
                         issuedAt |-> issuedAt] >>]

\* AttestationStorage.getEducationAttestation
getEducationAttestation(store, attestationId) == store[attestationId]

\* EmployerRegistry.addEmployer
addEmployer(flags, sender, employer) ==
    IF ~onlyOwner(sender) THEN Revert("OwnableUnauthorizedAccount")
    ELSE IF employer = NoAddr THEN Revert("InvalidEmployer")
    ELSE IF employer \in flags THEN Revert("EmployerAlreadyExists")
    ELSE [reverted |-> FALSE, storage |-> flags \cup {employer},
          events |-> << [name |-> "EmployerAdded", employer |-> employer] >>]

\* removeEmployer without the check of the flag.
removeEmployerUnchecked(flags, sender, employer) ==
    IF ~onlyOwner(sender) THEN Revert("OwnableUnauthorizedAccount")
    ELSE [reverted |-> FALSE, storage |-> flags \ {employer},
          events |-> << [name |-> "EmployerRemoved", employer |-> employer] >>]

\* EmployerRegistry.removeEmployer
removeEmployer(flags, sender, employer) ==
    IF ~onlyOwner(sender) THEN Revert("OwnableUnauthorizedAccount")
    ELSE IF employer \notin flags THEN Revert("EmployerNotFound")
    ELSE [reverted |-> FALSE, storage |-> flags \ {employer},
          events |-> << [name |-> "EmployerRemoved", employer |-> employer] >>]

\* EmployerRegistry.isEmployer
registryIsEmployer(flags, employer) == employer \in flags

\* MockGroth16Verifier.verifyProof
MockVerifyProof(result, publicSignals) ==
    IF ~result THEN FALSE
    ELSE IF Len(publicSignals) = 0 THEN FALSE
    ELSE publicSignals[Len(publicSignals)] = 1

\* groth16Verifier.verifyProof(proof, publicSignals): the call CVVerifier forwards.
ForwardVerifyProof(target, result, p, publicSignals) ==
    IF target = "MockGroth16Verifier"
    THEN [reverted |-> FALSE, success |-> MockVerifyProof(result, publicSignals)]
    ELSE AdapterVerifyProof(p, publicSignals)

\* CVVerifier.verifyCVProof as a transaction of msg.sender: a revert of the
\* verifier it calls reverts the transaction.
verifyCVProofTx(target, result, sender, p, publicSignals) ==
    LET answer == ForwardVerifyProof(target, result, p, publicSignals)
    IN  IF answer.reverted THEN Revert(answer.error)
        ELSE [reverted |-> FALSE, returned |-> answer.success,
              events |-> << [name |-> "CVProofVerified", verifier |-> sender,
                             proofHash |-> <<"keccak256", p, publicSignals>>,
                             success |-> answer.success] >>]

\* CVVerifier.setVerifier
setVerifier(sender, verifierAddress) ==
    IF ~onlyOwner(sender) THEN Revert("OwnableUnauthorizedAccount")
    ELSE IF verifierAddress = "0x0" THEN Revert("InvalidVerifier")
    ELSE [reverted |-> FALSE, storage |-> verifierAddress,
          events |-> << [name |-> "VerifierUpdated", verifier |-> verifierAddress] >>]

\* The proof bytes a caller can send: the proof of the valid vector, its first
\* seven words, and eight words that are no proof.
CallProofs ==
    { generateProof(valid),
      [generateProof(valid) EXCEPT !.length = ProofBytes - 32],
      [called |-> TRUE, made |-> FALSE, length |-> ProofBytes, publicSignals |-> <<>>] }

\* The public signals a caller can send: those of the valid vector, the same
\* with the low bit of result flipped, their first four, and none.
CallSignals ==
    LET signals == publicSignalsOf(valid)
    IN  { signals, [signals EXCEPT ![Len(signals)] = 1 - signals[Len(signals)]],
          SubSeq(signals, 1, Len(signals) - 1), <<>> }

Transaction(fn, sender, input, outcome) ==
    [fn |-> fn, sender |-> sender, args |-> input, outcome |-> outcome]

\* The constructors: AttestationStorage(owner), EmployerRegistry(owner) and
\* CVVerifier(owner, verifier) with the adapter or the mock.
ContractsInit ==
    /\ EmploymentIdle
    /\ ZkIdle
    /\ CircuitIdle
    /\ CommitmentIdle
    /\ FdcIdle
    /\ IndexerIdle
    /\ deployed \in {"AttestationStorage", "EmployerRegistry", "CVVerifier"}
    /\ educationStore = [id \in AttestationIds |-> NoEducation]
    /\ employerFlags = {}
    /\ groth16Verifier \in Verifiers \ {"0x0"}
    /\ deployed # "CVVerifier" => groth16Verifier = "Groth16VerifierAdapter"
    /\ mockResult = TRUE
    /\ lastTx = [fn |-> "none"]
    /\ JobIdle

ContractsOthersUnchanged ==
    UNCHANGED <<employmentVars, zkVars, circuitVars, commitmentVars, fdcVars, indexerVars, deployed,
                jobVars>>

RecordEducationAttestation(sender, attestationId, subject, certHash, provider, issuedAt) ==
    /\ deployed = "AttestationStorage"
    /\ LET tx == recordEducationAttestation(educationStore, sender, attestationId, subject, certHash,
                                            provider, issuedAt)
       IN  /\ educationStore' = IF tx.reverted THEN educationStore ELSE tx.storage
           /\ lastTx' = Transaction("recordEducationAttestation", sender,
                                    <<attestationId, subject, certHash, provider, issuedAt>>, tx)
    /\ UNCHANGED <<employerFlags, groth16Verifier, mockResult>>
    /\ ContractsOthersUnchanged

AddEmployer(sender, employer) ==
    /\ deployed = "EmployerRegistry"
    /\ LET tx == addEmployer(employerFlags, sender, employer)
       IN  /\ employerFlags' = IF tx.reverted THEN employerFlags ELSE tx.storage
           /\ lastTx' = Transaction("addEmployer", sender, <<employer>>, tx)
    /\ UNCHANGED <<educationStore, groth16Verifier, mockResult>>
    /\ ContractsOthersUnchanged

RemoveEmployer(sender, employer) ==
    /\ deployed = "EmployerRegistry"
    /\ LET tx == removeEmployer(employerFlags, sender, employer)
       IN  /\ employerFlags' = IF tx.reverted THEN employerFlags ELSE tx.storage
           /\ lastTx' = Transaction("removeEmployer", sender, <<employer>>, tx)
    /\ UNCHANGED <<educationStore, groth16Verifier, mockResult>>
    /\ ContractsOthersUnchanged

SetVerifier(sender, verifierAddress) ==
    /\ deployed = "CVVerifier"
    /\ LET tx == setVerifier(sender, verifierAddress)
       IN  /\ groth16Verifier' = IF tx.reverted THEN groth16Verifier ELSE tx.storage
           /\ lastTx' = Transaction("setVerifier", sender, <<verifierAddress>>, tx)
    /\ UNCHANGED <<educationStore, employerFlags, mockResult>>
    /\ ContractsOthersUnchanged

\* MockGroth16Verifier.setResult
SetResult(sender, nextResult) ==
    /\ deployed = "CVVerifier"
    /\ mockResult' = nextResult
    /\ lastTx' = Transaction("setResult", sender, <<nextResult>>, [reverted |-> FALSE, events |-> <<>>])
    /\ UNCHANGED <<educationStore, employerFlags, groth16Verifier>>
    /\ ContractsOthersUnchanged

VerifyCVProofTx(sender, p, publicSignals) ==
    /\ deployed = "CVVerifier"
    /\ lastTx' = Transaction("verifyCVProof", sender, <<p, publicSignals>>,
                             verifyCVProofTx(groth16Verifier, mockResult, sender, p, publicSignals))
    /\ UNCHANGED <<educationStore, employerFlags, groth16Verifier, mockResult>>
    /\ ContractsOthersUnchanged

NextContracts ==
    \/ \E sender \in Senders, attestationId \in AttestationIds, subject \in Subjects,
          certHash \in CertHashes, provider \in ProviderNames :
            RecordEducationAttestation(sender, attestationId, subject, certHash, provider, IssuedAt)
    \/ \E sender \in Senders, employer \in {NoAddr, EMPLOYER_A, EMPLOYER_B} : AddEmployer(sender, employer)
    \/ \E sender \in Senders, employer \in {NoAddr, EMPLOYER_A, EMPLOYER_B} : RemoveEmployer(sender, employer)
    \/ \E sender \in Senders, verifierAddress \in Verifiers : SetVerifier(sender, verifierAddress)
    \/ \E sender \in Senders, nextResult \in BOOLEAN : SetResult(sender, nextResult)
    \/ \E sender \in Senders, p \in CallProofs, publicSignals \in CallSignals :
            VerifyCVProofTx(sender, p, publicSignals)

SpecContracts == ContractsInit /\ [][NextContracts]_vars

(***************************************************************************)
(* The facts service: the verification job of                             *)
(* services/facts/src/verificationWorkflow.ts and the proof service of     *)
(* services/facts/src/proofService.ts.  A request id and an attestation id *)
(* are integers spelled like the addresses: the odd number is the same id  *)
(* in another letter case.  A null of the code is NoId for an id, "null"   *)
(* for a string and NotCalled for an object.                               *)
(***************************************************************************)
MaxCertificates == 2

ListLimit == 10

NoId == NoAddr

\* The attestation ids the chain can hold for the wallet, and the ids a status
\* response or a request body can carry: 41 is 40 in upper case, 44 is an id
\* the chain does not list for the wallet.
ChainAttestationLists == {<<>>, <<40>>, <<42, 40>>}

RequestedIds == {NoId, 40, 41, 42, 44}

\* The transfers the Plasma indexer has seen: none, one month, three months.
JobLedgers == <<(<<>>), SubSeq(WitnessLedger, 1, 2), WitnessLedger>>

NoAwait == [call |-> "none", index |-> 0, allDone |-> TRUE]

Await(call, index, allDone) == [call |-> call, index |-> index, allDone |-> allDone]

Ended(jb) == [job |-> jb, await |-> NoAwait]

failJob(jb, reason) == [jb EXCEPT !.state = "failed", !.stage = "failed", !.error = reason]

timeoutJob(jb, reason) == [jb EXCEPT !.state = "timeout", !.stage = "failed", !.error = reason]

JobCertificate(index) ==
    [id |-> index, status |-> "queued", requestId |-> NoId, reason |-> "null", attestationId |-> NoId]

\* startVerificationJob, with runVerificationJob run up to its first await.
startVerificationJob(wallet, count) ==
    [job |-> [state |-> "running", stage |-> "submitting_certificates", wallet |-> getAddress(wallet),
              certificates |-> [index \in 1..count |-> JobCertificate(index)],
              employment |-> NotCalled, proofPackage |-> NotCalled, error |-> "null"],
     await |-> Await("submit", 1, TRUE)]

CertificateStatuses(jb) == {jb.certificates[i].status : i \in 1..Len(jb.certificates)}

\* runVerificationJob after the polling loop, up to the call of the Plasma service.
checkEmploymentStage(jb) ==
    IF CertificateStatuses(jb) # {"verified"}
    THEN Ended(timeoutJob(jb, "education_verification_timeout"))
    ELSE [job |-> [jb EXCEPT !.stage = "checking_employment"], await |-> Await("employment", 0, TRUE)]

\* The end of one polling round, after the for loop over the certificates.
endOfRound(jb, allDone) ==
    LET failed == {i \in 1..Len(jb.certificates) : jb.certificates[i].status \in {"failed", "timeout"}}
        failedCert == CHOOSE i \in failed : \A k \in failed : i <= k
    IN  IF failed # {} THEN Ended(failJob(jb, jb.certificates[failedCert].reason))
        ELSE IF allDone /\ CertificateStatuses(jb) = {"verified"} THEN checkEmploymentStage(jb)
        ELSE [job |-> jb, await |-> Await("sleep", 0, allDone)]

\* The for loop of a polling round from certificate `index` on, up to its next
\* status call.
RECURSIVE scanCertificates(_, _, _)
scanCertificates(jb, index, allDone) ==
    IF index > Len(jb.certificates) THEN endOfRound(jb, allDone)
    ELSE IF jb.certificates[index].requestId = NoId THEN scanCertificates(jb, index + 1, FALSE)
    ELSE IF jb.certificates[index].status \in {"verified", "failed", "timeout"}
         THEN scanCertificates(jb, index + 1, allDone)
    ELSE [job |-> jb, await |-> Await("status", index, allDone)]

\* The test of the while loop: another round, or the code after the loop.
whileBeforeDeadline(jb, passed) ==
    IF passed THEN checkEmploymentStage(jb) ELSE scanCertificates(jb, 1, TRUE)

\* runVerificationJob from the answer of POST /fdc/education/submit on.
afterSubmit(jb, index, submit, passed) ==
    IF submit.requestId = NoId \/ submit.status # "accepted"
    THEN Ended(failJob([jb EXCEPT !.certificates[index].status = "failed",
                                  !.certificates[index].reason = "fdc_submit_rejected"],
                       "education_submit_failed"))
    ELSE LET accepted == [jb EXCEPT !.certificates[index].requestId = submit.requestId,
                                    !.certificates[index].status = "pending",
                                    !.certificates[index].reason = "null"]
         IN  IF index < Len(jb.certificates)
             THEN [job |-> accepted, await |-> Await("submit", index + 1, TRUE)]
             ELSE whileBeforeDeadline([accepted EXCEPT !.stage = "waiting_certificates"], passed)

\* runVerificationJob from the answer of GET /fdc/education/status/:id on.
afterStatus(jb, index, allDone, status) ==
    LET certificate == jb.certificates[index]
        updated ==
            IF status.status = "pending"
            THEN [certificate EXCEPT !.status = "pending", !.reason = status.reason]
            ELSE IF status.status = "verified"
            THEN [certificate EXCEPT !.status = "verified", !.reason = "null",
                                     !.attestationId = status.attestationId]
            ELSE [certificate EXCEPT !.status = status.status,
                                     !.reason = IF status.reason = "null"
                                                THEN "education_verification_failed"
                                                ELSE status.reason]
    IN  scanCertificates([jb EXCEPT !.certificates[index] = updated], index + 1,
                         allDone /\ status.status # "pending")

\* runVerificationJob from the answer of the Plasma service on, without the
\* test of employment.qualifies.
afterEmploymentUnchecked(jb, response, mode) ==
    LET known == [jb EXCEPT !.employment = response]
        strictMode == mode # "demo_one_payment"
    IN  IF strictMode /\ Len(response.monthsMatched) < 3
        THEN Ended(failJob(known, "employment_requires_3_consecutive_months_for_zk"))
        ELSE IF strictMode /\ "monthTransferCounts" \notin DOMAIN response
        THEN Ended(failJob(known, "Cannot read properties of undefined (reading 'length')"))
        ELSE IF strictMode /\ Len(response.monthTransferCounts) < 3
        THEN Ended(failJob(known, "employment_requires_3_consecutive_months_for_zk"))
        ELSE [job |-> [known EXCEPT !.stage = "generating_proof"], await |-> Await("proof", 0, TRUE)]

\* runVerificationJob from the answer of the Plasma service on.  The response
\* is the object the Plasma service sent: reading the length of a field it
\* does not carry throws, and the catch block fails the job.
afterEmployment(jb, response, mode) ==
    IF ~response.qualifies
    THEN Ended(failJob([jb EXCEPT !.employment = response], "employment_not_qualified"))
    ELSE afterEmploymentUnchecked(jb, response, mode)

\* The attestation id runVerificationJob hands to generateProofPackage.
certificateAttestationId(jb) ==
    LET attested == {i \in 1..Len(jb.certificates) : jb.certificates[i].attestationId # NoId}
    IN  IF attested = {} THEN NoId
        ELSE jb.certificates[CHOOSE i \in attested : \A k \in attested : i <= k].attestationId

\* educationSource.ts: the wallet's attestations, newest first, at most `limit`.
listEducationAttestationsForWallet(chain, limit) ==
    SubSeq(chain, 1, IF Len(chain) < limit THEN Len(chain) ELSE limit)

Threw(error) == [threw |-> TRUE, error |-> error]

resolveAttestationId(chain, requestedAttestationId) ==
    LET attestations == listEducationAttestationsForWallet(chain, ListLimit)
        matches == {i \in 1..Len(attestations) :
                       toLowerCase(attestations[i]) = toLowerCase(requestedAttestationId)}
        matched == CHOOSE i \in matches : \A k \in matches : i <= k
    IN  IF requestedAttestationId # NoId /\ matches # {}
        THEN [threw |-> FALSE, attestationId |-> attestations[matched]]
        ELSE IF Len(attestations) > 0
        THEN [threw |-> FALSE, attestationId |-> attestations[1]]
        ELSE Threw("missing_education_attestation_for_wallet")

\* generateProofPackage: `response` is the Plasma service's answer at the time
\* of the call, `proved` whether the builder and the prover exit with zero.
\* The package carries the attestation id handed to the witness builder.
generateProofPackage(wallet, requestedAttestationId, response, chain, proved) ==
    IF ~response.qualifies THEN Threw("employment_not_qualified")
    ELSE LET resolved == resolveAttestationId(chain, requestedAttestationId)
         IN  IF resolved.threw THEN resolved
             ELSE IF ~proved THEN Threw("command_failed")
             ELSE [threw |-> FALSE,
                   pkg |-> [wallet |-> getAddress(wallet), attestationId |-> resolved.attestationId]]

\* runVerificationJob from the return of generateProofPackage on.
afterProof(jb, outcome) ==
    IF outcome.threw THEN failJob(jb, outcome.error)
    ELSE [jb EXCEPT !.proofPackage = outcome.pkg, !.state = "proof_ready", !.stage = "proof_ready",
                    !.error = "null"]

SubmitResponses ==
    {[requestId |-> 7, status |-> "accepted"], [requestId |-> NoId, status |-> "rejected"]}

StatusResponses ==
    {[status |-> "pending", attestationId |-> NoId, reason |-> "null"],
     [status |-> "failed", attestationId |-> NoId, reason |-> "null"],
     [status |-> "timeout", attestationId |-> NoId, reason |-> "fdc_finalization_timeout"]}
    \cup {[status |-> "verified", attestationId |-> id, reason |-> "null"] : id \in {NoId, 40, 44}}

JobInit ==
    /\ transfers \in Range(JobLedgers)
    /\ registeredEmployers = {EMPLOYER_A}
    /\ stablecoinAllowlist = <<TOKEN_A>>
    /\ phase = "collect"
    /\ employment = NotCalled
    /\ window = NotCalled
    /\ ZkIdle
    /\ CircuitIdle
    /\ CommitmentIdle
    /\ FdcIdle
    /\ IndexerIdle
    /\ ContractsIdle
    /\ job = NotCalled
    /\ jobAwait = NoAwait
    /\ deadlinePassed = FALSE
    /\ ruleMode \in [facts : RuleModes, plasma : RuleModes]
    /\ walletAttestations \in ChainAttestationLists
    /\ proofResponse = NotCalled

JobOthersUnchanged ==
    UNCHANGED <<registeredEmployers, stablecoinAllowlist, phase, window, zkVars, circuitVars,
                commitmentVars, fdcVars, indexerVars, contractVars, ruleMode>>

\* The facts service waits for the Plasma service in runVerificationJob, in
\* generateProofPackage of the job and in generateProofPackage of a proof request.
PlasmaRequested == jobAwait.call \in {"employment", "proof"} \/ job = NotCalled

\* GET /plasma/employment/:wallet of the Plasma service: `employment` is its
\* answer on the way to the facts service.
AnswerEmployment(mode) ==
    /\ PlasmaRequested
    /\ mode = ruleMode.plasma
    /\ employment = NotCalled
    /\ employment' = [called |-> TRUE, mode |-> mode,
                      result |-> evaluateEmployment(getAddress(FIXTURE_WALLET), transfers,
                                                    registeredEmployers, stablecoinAllowlist, mode)]
    /\ UNCHANGED <<transfers, jobVars>>
    /\ JobOthersUnchanged

\* POST /verification/start with `count` valid certificates.  The client of
\* a behaviour either starts a job or posts proof requests.
StartVerificationJob(count) ==
    /\ job = NotCalled
    /\ proofResponse = NotCalled
    /\ LET run == startVerificationJob(FIXTURE_WALLET, count)
       IN  job' = run.job /\ jobAwait' = run.await
    /\ UNCHANGED <<transfers, employment, deadlinePassed, walletAttestations, proofResponse>>
    /\ JobOthersUnchanged

SubmitReturns(submit) ==
    /\ jobAwait.call = "submit"
    /\ LET run == afterSubmit(job, jobAwait.index, submit, deadlinePassed)
       IN  job' = run.job /\ jobAwait' = run.await
    /\ UNCHANGED <<transfers, employment, deadlinePassed, walletAttestations, proofResponse>>
    /\ JobOthersUnchanged

\* The status of a request; `recorded` tells whether the FDC service that
\* answers verified has written the attestation to the chain.
StatusReturns(status, recorded) ==
    /\ jobAwait.call = "status"
    /\ recorded => status.status = "verified" /\ status.attestationId # NoId
    /\ LET run == afterStatus(job, jobAwait.index, jobAwait.allDone, status)
       IN  job' = run.job /\ jobAwait' = run.await
    /\ walletAttestations' =
          IF recorded /\ status.attestationId \notin Range(walletAttestations)
          THEN <<status.attestationId>> \o walletAttestations
          ELSE walletAttestations
    /\ UNCHANGED <<transfers, employment, deadlinePassed, proofResponse>>
    /\ JobOthersUnchanged

SleepReturns ==
    /\ jobAwait.call = "sleep"
    /\ LET run == whileBeforeDeadline(job, deadlinePassed)
       IN  job' = run.job /\ jobAwait' = run.await
    /\ UNCHANGED <<transfers, employment, deadlinePassed, walletAttestations, proofResponse>>
    /\ JobOthersUnchanged

EmploymentReturns ==
    /\ jobAwait.call = "employment"
    /\ employment.called
    /\ LET run == afterEmployment(job, employment.result, ruleMode.facts)
       IN  job' = run.job /\ jobAwait' = run.await
    /\ employment' = NotCalled
    /\ UNCHANGED <<transfers, deadlinePassed, walletAttestations, proofResponse>>
    /\ JobOthersUnchanged

ProofReturns(proved) ==
    /\ jobAwait.call = "proof"
    /\ employment.called
    /\ job' = afterProof(job, generateProofPackage(job.wallet, certificateAttestationId(job),
                                                   employment.result, walletAttestations, proved))
    /\ jobAwait' = NoAwait
    /\ employment' = NotCalled
    /\ UNCHANGED <<transfers, deadlinePassed, walletAttestations, proofResponse>>
    /\ JobOthersUnchanged

\* A call to the FDC service or to the Plasma service is answered with an
\* error status: getJson and postJson throw, the catch block fails the job.
RequestFails ==
    /\ jobAwait.call \in {"submit", "status", "employment"}
    /\ job' = failJob(job, "request_failed_500")
    /\ jobAwait' = NoAwait
    /\ UNCHANGED <<transfers, employment, deadlinePassed, walletAttestations, proofResponse>>
    /\ JobOthersUnchanged

\* Date.now() reaches the deadline of the running job.
DeadlinePasses ==
    /\ job # NotCalled
    /\ job.state = "running"
    /\ ~deadlinePassed
    /\ deadlinePassed' = TRUE
    /\ UNCHANGED <<transfers, employment, job, jobAwait, walletAttestations, proofResponse>>
    /\ JobOthersUnchanged

\* The Plasma indexer sees the transfers of further months.  The step is taken
\* where the job can tell it from a longer list at the start: between the
\* employment check of the job and the one of the proof service.
IndexTransfers ==
    /\ jobAwait.call = "proof"
    /\ \E i \in 1..(Len(JobLedgers) - 1) : transfers = JobLedgers[i] /\ transfers' = JobLedgers[i + 1]
    /\ UNCHANGED <<employment, job, jobAwait, deadlinePassed, walletAttestations, proofResponse>>
    /\ JobOthersUnchanged

\* POST /facts/:wallet/proof/generate with an attestationId in its body.
GenerateProofRequest(requestedAttestationId, proved) ==
    /\ job = NotCalled
    /\ employment.called
    /\ LET outcome == generateProofPackage(FIXTURE_WALLET, requestedAttestationId, employment.result,
                                           walletAttestations, proved)
       IN  proofResponse' = [requested |-> requestedAttestationId,
                             status |-> IF outcome.threw THEN 400 ELSE 200,
                             body |-> outcome]
    /\ employment' = NotCalled
    /\ UNCHANGED <<transfers, job, jobAwait, deadlinePassed, walletAttestations>>
    /\ JobOthersUnchanged

NextJob ==
    \/ \E count \in 1..MaxCertificates : StartVerificationJob(count)
    \/ \E submit \in SubmitResponses : SubmitReturns(submit)
    \/ \E status \in StatusResponses, recorded \in BOOLEAN : StatusReturns(status, recorded)
    \/ SleepReturns
    \/ EmploymentReturns
    \/ \E proved \in BOOLEAN : ProofReturns(proved)
    \/ RequestFails
    \/ DeadlinePasses
    \/ IndexTransfers
    \/ \E mode \in RuleModes : AnswerEmployment(mode)
    \/ \E requestedAttestationId \in RequestedIds, proved \in BOOLEAN :
          GenerateProofRequest(requestedAttestationId, proved)

SpecJob == JobInit /\ [][NextJob]_vars

(***************************************************************************)
(* Vocabulary of the properties, stated on sets of positions of the        *)
(* transfer list and on integer month indexes.                             *)
(***************************************************************************)
SameAddress(a, b) == a \div 2 = b \div 2

Qualifying(t) ==
    /\ SameAddress(t.to, FIXTURE_WALLET)
    /\ \E e \in registeredEmployers : SameAddress(t.from, e)
    /\ \E k \in 1..Len(stablecoinAllowlist) : SameAddress(t.token, stablecoinAllowlist[k])

MonthIndex(t) == parseMonthKey(monthKey(t.timestamp))

QualifyingPositions == {i \in 1..Len(transfers) : Qualifying(transfers[i])}

EmployerGroup(e) == {i \in QualifyingPositions : SameAddress(transfers[i].from, e)}

EmployerTokenGroup(e, t) == {i \in EmployerGroup(e) : SameAddress(transfers[i].token, t)}

GroupMonths(g) == {MonthIndex(transfers[i]) : i \in g}

RunStarts(g) == {m \in GroupMonths(g) : m + 1 \in GroupMonths(g) /\ m + 2 \in GroupMonths(g)}

CountFrom(g, m) == Cardinality({i \in g : MonthIndex(transfers[i]) \in m..(m + 2)})

FirstStart(g) == CHOOSE m \in RunStarts(g) : \A n \in RunStarts(g) : m <= n

BestStart(g) ==
    CHOOSE m \in RunStarts(g) :
        \A n \in RunStarts(g) : CountFrom(g, m) > CountFrom(g, n)
                                \/ (CountFrom(g, m) = CountFrom(g, n) /\ m <= n)

MonthsAre(months, m) ==
    /\ Len(months) = 3
    /\ \A k \in 1..3 : parseMonthKey(months[k]) = m + k - 1

\* The events of the list in the order of the ledger.
LedgerOrder(ts) == LET Listed(e) == e \in Range(ts) IN SelectSeq(Ledger, Listed)

StrictCalled == employment.called /\ employment.mode = "strict_3_months"

DemoCalled == employment.called /\ employment.mode = "demo_one_payment"

\* The token the service binds into the commitment of its result.
CommittedToken(result) == result.factCommitment[2][3]

(***************************************************************************)
(* C1. Determinism: for a fixed wallet, employer set and token allowlist   *)
(* the qualification returns the same result (employer, months, payment    *)
(* count, qualifies flag, commitment) for every order of the same transfer *)
(* list: the result of any arrangement is the result of the arrangement in *)
(* ledger order. It holds of evaluateEmployment in both rule modes, of the *)
(* version without the sort, and of the witness builder's window.          *)
(***************************************************************************)
C1_OrderIndependent ==
    /\ employment.called =>
          employment.result = evaluateEmployment(getAddress(FIXTURE_WALLET), LedgerOrder(transfers),
                                                 registeredEmployers, stablecoinAllowlist, employment.mode)
    /\ window.called =>
          window.result = loadEmploymentWindow(LedgerOrder(transfers), FIXTURE_WALLET,
                                               registeredEmployers, stablecoinAllowlist)
    /\ evaluateEmploymentUnsorted(FIXTURE_WALLET, transfers, registeredEmployers, stablecoinAllowlist)
          = evaluateEmploymentUnsorted(FIXTURE_WALLET, LedgerOrder(transfers), registeredEmployers,
                                       stablecoinAllowlist)

\* Two employers tie on three payments each and the list is not in ledger order.
C1_Witness ==
    /\ StrictCalled
    /\ Len(transfers) = 6
    /\ transfers # LedgerOrder(transfers)
    /\ SameAddress(transfers[1].from, EMPLOYER_A)
    /\ employment.result.qualifies
    /\ employment.result.paymentCount = 3
    /\ employment.result.employer = EMPLOYER_A

\* The employers and the employer-token pairs that have a run of three consecutive months.
SeenEmployers == {toLowerCase(transfers[i].from) : i \in QualifyingPositions}

SeenTokens == {toLowerCase(transfers[i].token) : i \in QualifyingPositions}

RunEmployers == {e \in SeenEmployers : RunStarts(EmployerGroup(e)) # {}}

RunPairs == {p \in SeenEmployers \X SeenTokens : RunStarts(EmployerTokenGroup(p[1], p[2])) # {}}

PairGroup(p) == EmployerTokenGroup(p[1], p[2])

\* (count, employer, token) of a ranks before that of b: higher count, then smaller
\* employer, then smaller token.
RanksBefore(ca, ea, ta, cb, eb, tb) ==
    \/ ca > cb
    \/ ca = cb /\ ea < eb
    \/ ca = cb /\ ea = eb /\ ta <= tb

\* The positions of group g inside the window that starts at month m, per token.
TokenCountFrom(g, m, t) ==
    Cardinality({i \in g : MonthIndex(transfers[i]) \in m..(m + 2) /\ SameAddress(transfers[i].token, t)})

ThreeConsecutive(months) ==
    /\ Len(months) = 3
    /\ parseMonthKey(months[2]) = parseMonthKey(months[1]) + 1
    /\ parseMonthKey(months[3]) = parseMonthKey(months[2]) + 1

C4_Original_AnyMode ==
    /\ (employment.called /\ employment.result.qualifies) =>
          ThreeConsecutive(employment.result.monthsMatched)
    /\ (window.called /\ window.result.found) => ThreeConsecutive(window.result.monthsMatched)

(***************************************************************************)
(* C4 (amended). Every result with qualifies = true in strict_3_months     *)
(* mode and every window of the builder has exactly three month keys m0,   *)
(* m0 + 1, m0 + 2. In demo_one_payment mode a qualifying result has one to *)
(* three distinct month keys in ascending order, consecutive or not.       *)
(***************************************************************************)
C4_ConsecutiveMonths ==
    /\ (StrictCalled /\ employment.result.qualifies) =>
          ThreeConsecutive(employment.result.monthsMatched)
    /\ (window.called /\ window.result.found) => ThreeConsecutive(window.result.monthsMatched)
    /\ (DemoCalled /\ employment.result.qualifies) =>
          LET months == employment.result.monthsMatched
          IN  /\ Len(months) \in 1..3
              /\ \A k \in 1..(Len(months) - 1) :
                    parseMonthKey(months[k]) < parseMonthKey(months[k + 1])

\* A window across the year end: 2025-11, 2025-12, 2026-01.
C4_Witness ==
    /\ phase = "done"
    /\ \/ StrictCalled /\ employment.result.monthsMatched = << <<2025, 11>>, <<2025, 12>>, <<2026, 1>> >>
       \/ window.called /\ window.result.found
                        /\ window.result.monthsMatched = << <<2025, 11>>, <<2025, 12>>, <<2026, 1>> >>

(***************************************************************************)
(* C5 (as stated). The months and the count of the window the Plasma       *)
(* service returns come from transfers of one sender and one token: the    *)
(* count is the number of transfers of the committed token in the window   *)
(* and each matched month holds a transfer of that token. It fails: the    *)
(* service groups by sender alone.                                         *)
(***************************************************************************)
WindowStart(months) == parseMonthKey(months[1])

OneTokenWindow(employer, token, months, paymentCount) ==
    LET g == EmployerTokenGroup(employer, token)
    IN  /\ paymentCount = CountFrom(g, WindowStart(months))
        /\ \A k \in 1..Len(months) : parseMonthKey(months[k]) \in GroupMonths(g)

C5_Original_OneToken ==
    (StrictCalled /\ employment.result.qualifies) =>
        OneTokenWindow(employment.result.employer, CommittedToken(employment.result),
                       employment.result.monthsMatched, employment.result.paymentCount)

(***************************************************************************)
(* C5 (amended). The witness builder groups by the pair (sender, token):   *)
(* its window's months and counts come from transfers of one sender and    *)
(* one token only. The Plasma service groups by sender alone: in strict    *)
(* mode its count is the number of the employer's qualifying transfers in  *)
(* the window whatever their allowed token, each matched month holds such  *)
(* a transfer, and the committed token is one that occurs in the window.   *)
(***************************************************************************)
C5_Grouping ==
    /\ (window.called /\ window.result.found) =>
          LET r == window.result
              g == EmployerTokenGroup(r.employer, r.token)
          IN  /\ OneTokenWindow(r.employer, r.token, r.monthsMatched, r.paymentCount)
              /\ \A k \in 1..3 :
                    r.monthCounts[k] = Cardinality({i \in g : MonthIndex(transfers[i])
                                                               = parseMonthKey(r.monthsMatched[k])})
    /\ (StrictCalled /\ employment.result.qualifies) =>
          LET r == employment.result
              g == EmployerGroup(r.employer)
          IN  /\ r.paymentCount = CountFrom(g, WindowStart(r.monthsMatched))
              /\ \A k \in 1..3 : parseMonthKey(r.monthsMatched[k]) \in GroupMonths(g)
              /\ TokenCountFrom(g, WindowStart(r.monthsMatched), CommittedToken(r)) >= 1

\* The service returns a window one of whose months only a second token of the employer fills.
C5_Witness ==
    /\ StrictCalled /\ employment.result.qualifies
    /\ \E k \in 1..3 :
          parseMonthKey(employment.result.monthsMatched[k])
              \notin GroupMonths(EmployerTokenGroup(employment.result.employer,
                                                    CommittedToken(employment.result)))

(***************************************************************************)
(* C6 (as stated). Within one group with more than one run of three        *)
(* consecutive months, the run chosen is the one with the most transfers,  *)
(* the smallest month triple on a tie: stated of the group of the window   *)
(* that is returned, for the service (groups by employer) and the builder  *)
(* (groups by employer and token). The builder takes the first run.        *)
(***************************************************************************)
C6_BestRunInGroup ==
    /\ (StrictCalled /\ employment.result.qualifies) =>
          MonthsAre(employment.result.monthsMatched, BestStart(EmployerGroup(employment.result.employer)))
    /\ (window.called /\ window.result.found) =>
          MonthsAre(window.result.monthsMatched,
                    BestStart(EmployerTokenGroup(window.result.employer, window.result.token)))

\* The part of C6 that holds: the service's choice inside an employer's group.
C6_ServiceBestRun ==
    (StrictCalled /\ employment.result.qualifies) =>
        LET g == EmployerGroup(employment.result.employer)
        IN  /\ MonthsAre(employment.result.monthsMatched, BestStart(g))
            /\ employment.result.paymentCount = CountFrom(g, BestStart(g))

(***************************************************************************)
(* C7. A transfer whose receiver is not the wallet, whose sender is not a  *)
(* registered employer or whose token is not allowed has no influence:     *)
(* the result over the list without it is the result over the list with    *)
(* it, for the service in both modes and for the builder's window.         *)
(***************************************************************************)
RemoveAt(s, i) == SubSeq(s, 1, i - 1) \o SubSeq(s, i + 1, Len(s))

WindowView(r) == IF r.found THEN r ELSE NoWindow

C7_FilterIrrelevance ==
    \A i \in 1..Len(transfers) :
        ~Qualifying(transfers[i]) =>
            /\ employment.called =>
                  employment.result = evaluateEmployment(getAddress(FIXTURE_WALLET), RemoveAt(transfers, i),
                                                         registeredEmployers, stablecoinAllowlist,
                                                         employment.mode)
            /\ window.called =>
                  WindowView(window.result)
                      = WindowView(loadEmploymentWindow(RemoveAt(transfers, i), FIXTURE_WALLET,
                                                        registeredEmployers, stablecoinAllowlist))

\* A qualifying result over a list that holds a transfer failing each of the three conditions.
C7_Witness ==
    /\ StrictCalled /\ employment.result.qualifies
    /\ \E i \in 1..Len(transfers) : ~SameAddress(transfers[i].to, FIXTURE_WALLET)
    /\ \E i \in 1..Len(transfers) : \A e \in registeredEmployers : ~SameAddress(transfers[i].from, e)
    /\ \E i \in 1..Len(transfers) :
          \A k \in 1..Len(stablecoinAllowlist) : ~SameAddress(transfers[i].token, stablecoinAllowlist[k])

(***************************************************************************)
(* Vocabulary of the witness builder's validations.                        *)
(***************************************************************************)
SubjectMatches == SameAddress(attestation.subject, args.wallet)

SupportedProviders == {"udemy", "coursera", "datacamp", "edx", "Coursera", "EDX"}

ProviderSupported == attestation.provider \in SupportedProviders

PolicyWindowOpen == args.educationExpiryAt >= attestation.issuedAt

\* The certificate's skill hash is --education-skill-hash, the required one when it is absent.
SkillMatchesPolicy == args.hasEducationSkillHash => args.educationSkillHash = args.requiredSkillHash

WindowExists == RunPairs # {}

FailedValidations ==
    {k \in {"SubjectMismatch", "UnsupportedProvider", "ExpiredPolicyWindow", "SkillMismatch",
            "NoQualifyingEmployment"} :
        \/ k = "SubjectMismatch" /\ ~SubjectMatches
        \/ k = "UnsupportedProvider" /\ ~ProviderSupported
        \/ k = "ExpiredPolicyWindow" /\ ~PolicyWindowOpen
        \/ k = "SkillMismatch" /\ ~SkillMatchesPolicy
        \/ k = "NoQualifyingEmployment" /\ ~WindowExists}

\* The typed failure an Error of the builder stands for.
ErrorKind(message) ==
    CASE message = "Attestation not found on-chain" -> "AttestationNotFound"
      [] message = "Attestation subject mismatch" -> "SubjectMismatch"
      [] message = "Unsupported provider in attestation" -> "UnsupportedProvider"
      [] message = "education-expiry-at must be >= attestation issuedAt" -> "ExpiredPolicyWindow"
      [] OTHER -> "NoQualifyingEmployment"

(***************************************************************************)
(* C8 (as stated). For an attestation that exists, the builder emits a     *)
(* witness exactly when the five validations pass (subject, provider,      *)
(* expiry, skill, window), and otherwise fails with the error of a         *)
(* validation that fails. The builder has no skill validation.             *)
(***************************************************************************)
C8_FiveValidations ==
    (built.called /\ attestation.exists) =>
        /\ built.result.ok <=> FailedValidations = {}
        /\ ~built.result.ok => ErrorKind(built.result.error) \in FailedValidations

\* The part of C8 that holds: the four validations the builder makes, in its order.
C8_FourValidations ==
    (built.called /\ attestation.exists) =>
        LET failed == FailedValidations \ {"SkillMismatch"}
            first == IF "SubjectMismatch" \in failed THEN "SubjectMismatch"
                     ELSE IF "UnsupportedProvider" \in failed THEN "UnsupportedProvider"
                     ELSE IF "ExpiredPolicyWindow" \in failed THEN "ExpiredPolicyWindow"
                     ELSE "NoQualifyingEmployment"
        IN  /\ built.result.ok <=> failed = {}
            /\ ~built.result.ok => ErrorKind(built.result.error) = first

(***************************************************************************)
(* C9. For valid evidence (qualifying transfers of one registered employer *)
(* and token in exactly three consecutive months, a certificate of the     *)
(* wallet for the required skill from a supported provider with expiry >=  *)
(* issuance, experience >= the policy minimum) the builder returns the     *)
(* window of those months with paymentCount the sum of the per-month       *)
(* counts, the circuit accepts the witness with result = 1, and the proof  *)
(* verifies with the signals as written.                                   *)
(***************************************************************************)
ValidEvidence ==
    /\ attestation.exists /\ FailedValidations = {}
    /\ args.employmentExperienceMonths >= args.minExperienceMonths
    /\ Cardinality(RunPairs) = 1
    /\ \A p \in RunPairs : Cardinality(GroupMonths(PairGroup(p))) = 3

MonthCountOf(g, m) == Cardinality({i \in g : MonthIndex(transfers[i]) = m})

C9_ValidEvidenceAccepted ==
    (built.called /\ ValidEvidence) =>
        \A p \in RunPairs :
            LET g == PairGroup(p)
                m == FirstStart(g)
                r == built.result
            IN  /\ r.ok
                /\ MonthsAre(r.employment.monthsMatched, m)
                /\ \A k \in 1..3 : r.employment.monthCounts[k] = MonthCountOf(g, m + k - 1)
                /\ r.employment.paymentCount
                      = MonthCountOf(g, m) + MonthCountOf(g, m + 1) + MonthCountOf(g, m + 2)
                /\ r.record.month0TransferCount + r.record.month1TransferCount
                      + r.record.month2TransferCount = Cardinality(g)
                /\ r.record.result = 1
                /\ VerifySovereignCV(r.record)
                /\ proof.called => proof.made /\ proof.publicSignals[5] = 1
                /\ (verification.called /\ submitted = proof.publicSignals) =>
                      ~verification.reverted /\ verification.success

\* The example: counts 2, 1, 3 in 2025-11, 2025-12, 2026-01 give paymentCount 6, and the proof verifies.
C9_Witness ==
    /\ phase = "verified"
    /\ ValidEvidence
    /\ built.result.employment.monthsMatched = << <<2025, 11>>, <<2025, 12>>, <<2026, 1>> >>
    /\ built.result.employment.monthCounts = <<2, 1, 3>>
    /\ built.result.employment.paymentCount = 6
    /\ submitted = proof.publicSignals
    /\ verification.success

(***************************************************************************)
(* C10. From a witness the circuit accepts, replacing one of the five      *)
(* public signals by a different value, all else fixed, makes verification *)
(* fail: the circuit's constraints do not hold of the replaced signals     *)
(* (a value that is not a field element is refused by the verifier), the   *)
(* Groth16 check rejects, and verifyCVProof returns and emits success =    *)
(* false. Flipping the low bit of result (1 to 0) is one such case.        *)
(***************************************************************************)
WithPublicSignals(input, signals) ==
    [f \in DOMAIN input |->
        IF \E i \in 1..Len(PublicSignalNames) : PublicSignalNames[i] = f
        THEN signals[CHOOSE i \in 1..Len(PublicSignalNames) : PublicSignalNames[i] = f]
        ELSE input[f]]

Tampered == phase \in {"submitted", "verified"} /\ submitted # proof.publicSignals

C10_TamperRejected ==
    Tampered =>
        /\ Cardinality({i \in 1..5 : submitted[i] # proof.publicSignals[i]}) = 1
        /\ VerifySovereignCV(proof.input)
        /\ \/ \E i \in 1..5 : submitted[i] >= FieldPrime
           \/ ~VerifySovereignCV(WithPublicSignals(proof.input, submitted))
        /\ ~Groth16Verify(proof, submitted)
        /\ phase = "verified" =>
              /\ ~verification.reverted
              /\ ~verification.success
              /\ ~verification.event.success

\* The low bit of result was flipped from 1 to 0 and verifyCVProof reported success = false.
C10_Witness ==
    /\ phase = "verified"
    /\ proof.publicSignals[5] = 1
    /\ submitted = [proof.publicSignals EXCEPT ![5] = 0]
    /\ ~verification.success

(***************************************************************************)
(* Vocabulary of the claims about the circuit.                             *)
(***************************************************************************)
\* The signals of the input in the field, as the witness generator reads them.
Signals == [f \in DOMAIN witnessInput.input |-> toFieldObject(witnessInput.input[f])]

WitnessGenerated == witnessOutcome # NotCalled

Accepted == WitnessGenerated /\ witnessOutcome.accepted

Rejected == WitnessGenerated /\ ~witnessOutcome.accepted

\* Hash(...) of the specification over the signals r.
CertificateHashOf(r) ==
    Poseidon(<<r.walletHash, r.salaryCommitment, r.providerCode, r.educationSkillHash, r.educationIssuedAt,
               r.educationExpiryAt, r.educationAttestationId>>)

EducationHashOf(r) ==
    Poseidon(<<r.walletHash, r.providerCode, r.certificateWitnessHash, r.educationAttestationId,
               r.educationIssuedAt>>)

EmploymentHashOf(r) ==
    Poseidon(<<r.walletHash, r.employmentEmployerHash, r.employmentTokenHash, r.employmentMonth0,
               r.employmentMonth1, r.employmentMonth2,
               FAdd(FAdd(r.month0TransferCount, r.month1TransferCount), r.month2TransferCount), 1>>)

CommitmentsMatch(r) ==
    /\ r.certificateWitnessHash = CertificateHashOf(r)
    /\ r.educationCommitment = EducationHashOf(r)
    /\ r.employmentCommitment = EmploymentHashOf(r)

\* C11: an accepted witness carries the certificate hash and the two public
\* commitments the specification's hashes give over its own signals, and every
\* input the builder writes carries exactly those hashes of its fields.
C11_CommitmentsBound ==
    /\ Accepted => CommitmentsMatch(Signals)
    /\ (witnessInput # NotCalled /\ witnessInput.source = "builder") => CommitmentsMatch(Signals)

\* The circuit accepted an input the builder wrote.
C11_Witness ==
    /\ Accepted
    /\ witnessInput.source = "builder"

\* C12: an accepted witness has three consecutive month keys and a nonzero
\* transfer count in each of them, and the missing-month vector, whose
\* employment commitment is recomputed over the moved month, is rejected.
C12_ConsecutiveMonths ==
    /\ Accepted =>
          /\ Signals.employmentMonth1 = Signals.employmentMonth0 + 1
          /\ Signals.employmentMonth2 = Signals.employmentMonth1 + 1
          /\ Signals.month0TransferCount # 0
          /\ Signals.month1TransferCount # 0
          /\ Signals.month2TransferCount # 0
    /\ (WitnessGenerated /\ witnessInput.input = missingMonth) => Rejected

\* The witness generator has refused missing-month.json.
C12_Witness ==
    /\ Rejected
    /\ witnessInput.input = missingMonth
    /\ Signals.employmentCommitment = EmploymentHashOf(Signals)

InputGiven == witnessInput # NotCalled

FitsTimestamp(x) == x < 2^TimestampBits

\* C13: an accepted witness has both education timestamps within the width of
\* the range check and an expiry that is not before the issue date as integers,
\* and on timestamps within that width the LessThan gadget is satisfiable and
\* its output is the integer comparison.
C13_ExpiryComparison ==
    /\ Accepted =>
          /\ FitsTimestamp(Signals.educationIssuedAt)
          /\ FitsTimestamp(Signals.educationExpiryAt)
          /\ Signals.educationExpiryAt >= Signals.educationIssuedAt
    /\ (InputGiven /\ FitsTimestamp(Signals.educationIssuedAt) /\ FitsTimestamp(Signals.educationExpiryAt)) =>
          /\ LessThanOk(TimestampBits, Signals.educationExpiryAt, Signals.educationIssuedAt)
          /\ LessThan(TimestampBits, Signals.educationExpiryAt, Signals.educationIssuedAt) = 1
                <=> Signals.educationExpiryAt < Signals.educationIssuedAt

\* An issue date one below the field's order, for which the gadget's difference
\* wraps to a small value, was hashed into consistent commitments and rejected.
C13_Witness ==
    /\ Rejected
    /\ Signals.educationIssuedAt = FieldPrime - 1
    /\ CommitmentsMatch(Signals)
    /\ notExpired(Signals) = 1

FitsExperience(x) == x < 2^ExperienceBits

\* C14: an accepted witness has an experience and a policy minimum that fit in
\* 16 bits, a policy minimum equal to the public minExperienceMonths, and an
\* experience that is at least the minimum as integers.
C14_ExperienceComparison ==
    Accepted =>
        /\ FitsExperience(Signals.employmentExperienceMonths)
        /\ FitsExperience(Signals.policyMinExperienceMonths)
        /\ Signals.policyMinExperienceMonths = Signals.minExperienceMonths
        /\ Signals.employmentExperienceMonths >= Signals.minExperienceMonths

\* A minimum one below the field's order, private and public alike and with its
\* square bound again, makes the gadget report enough experience and is rejected.
C14_Witness ==
    /\ Rejected
    /\ Signals.policyMinExperienceMonths = FieldPrime - 1
    /\ PolicyBinding(Signals)
    /\ experienceSatisfied(Signals) = 1

ProviderCodes == 1..4

\* C15: an accepted witness has a provider code among 1, 2, 3 and 4, and every
\* one of these four codes passes the range check and the provider check.
C15_ProviderCode ==
    /\ Accepted => Signals.providerCode \in ProviderCodes
    /\ (InputGiven /\ Signals.providerCode \in ProviderCodes) =>
          /\ Num2Bits(ProviderBits, Signals.providerCode)
          /\ providerValid(Signals) = 1

\* Provider code 7, which fits in 3 bits, was hashed into consistent commitments and rejected.
C15_Witness ==
    /\ Rejected
    /\ Signals.providerCode = 7
    /\ CommitmentsMatch(Signals)
    /\ forgedFields = {"providerCode"}

\* Every provider code from 1 to 4 is accepted once the commitments are recomputed.
C15_EveryCodePasses ==
    (WitnessGenerated /\ forgedFields = {"providerCode"} /\ Signals.providerCode \in ProviderCodes
        /\ CommitmentsMatch(Signals) /\ bindingSquaresOf(Signals).educationCommitmentBindingSquare
                                          = Signals.educationCommitmentBindingSquare)
      => Accepted

\* C16: an accepted witness has an education skill hash equal to the policy's
\* required skill hash and to the public requiredSkillHash, and the
\* invalid-cert vector is rejected.
C16_SkillMatch ==
    /\ Accepted =>
          /\ Signals.educationSkillHash = Signals.policyRequiredSkillHash
          /\ Signals.educationSkillHash = Signals.requiredSkillHash
    /\ (WitnessGenerated /\ witnessInput.input = invalidCert) => Rejected

\* Another education skill hash, hashed into consistent commitments and squares, was rejected.
C16_Witness ==
    /\ Rejected
    /\ forgedFields = {"educationSkillHash"}
    /\ Signals.educationSkillHash # Signals.requiredSkillHash
    /\ witnessInput.input = consistentVector(witnessInput.input)

(***************************************************************************)
(* Vocabulary of the claims about the commitments.                         *)
(***************************************************************************)
\* The canonical bound fields of a tuple: addresses in lowercase and three
\* month places for an employment result, field elements for the education signals.
CanonicalFields(kind, r) ==
    IF kind = "employment"
    THEN <<toLowerCase(r.wallet), toLowerCase(r.employer), toLowerCase(r.token),
           IF Len(r.monthsMatched) >= 1 THEN r.monthsMatched[1] ELSE <<>>,
           IF Len(r.monthsMatched) >= 2 THEN r.monthsMatched[2] ELSE <<>>,
           IF Len(r.monthsMatched) >= 3 THEN r.monthsMatched[3] ELSE <<>>,
           r.paymentCount, r.qualifies>>
    ELSE <<r.walletHash % FieldPrime, r.providerCode % FieldPrime,
           <<r.walletHash % FieldPrime, r.salaryCommitment % FieldPrime, r.providerCode % FieldPrime,
             r.educationSkillHash % FieldPrime, r.educationIssuedAt % FieldPrime,
             r.educationExpiryAt % FieldPrime, r.educationAttestationId % FieldPrime>>,
           r.educationAttestationId % FieldPrime, r.educationIssuedAt % FieldPrime>>

CanonicalOf(which) == CanonicalFields(boundFields.kind, boundFields[which])

\* C17: two derivations over the same canonical fields give the same payload
\* and the same commitment, whether of one tuple twice or of two spellings of
\* it; two derivations over tuples whose canonical fields differ in one field
\* give different payloads and different commitments.
C17_CommitmentOfFieldsOnly ==
    \A i, j \in 1..Len(derived) :
        IF CanonicalOf(derived[i].of) = CanonicalOf(derived[j].of)
        THEN /\ derived[i].result.payload = derived[j].result.payload
             /\ derived[i].result.commitment = derived[j].result.commitment
        ELSE /\ derived[i].result.payload # derived[j].result.payload
             /\ derived[i].result.commitment # derived[j].result.commitment

\* One tuple was derived twice, and a tuple that differs from it in the token once.
C17_Witness ==
    /\ Len(derived) = 3
    /\ boundFields.kind = "employment"
    /\ derived[1].of = "first" /\ derived[2].of = "first" /\ derived[3].of = "second"
    /\ toLowerCase(boundFields.first.token) # toLowerCase(boundFields.second.token)
    /\ [boundFields.first EXCEPT !.token = NoAddr] = [boundFields.second EXCEPT !.token = NoAddr]

(***************************************************************************)
(* Vocabulary of the claims about the FDC service.                         *)
(***************************************************************************)
Submitted == {id \in RequestIds : requests[id] # NoRequest}

TerminalStatuses == {"verified", "failed", "timeout"}

\* The attestation id the service derives for a request, from the verifier's
\* request bytes and the voting round stored with it.
DerivedAttestationId(id) ==
    <<"keccak256", requests[id].verifierRequestBytes, requests[id].fdcVotingRoundId>>

\* C18: a request whose status is verified carries the attestation id derived
\* from its verifier request and voting round, and AttestationStorage holds an
\* attestation under that id.
C18_VerifiedOnlyAfterWrite ==
    \A id \in Submitted :
        requests[id].status = "verified" =>
            /\ "verifierRequestBytes" \in DOMAIN requests[id]
            /\ requests[id].attestationId = DerivedAttestationId(id)
            /\ requests[id].attestationId \in attestationStorage

\* C18 for the polling entry point alone.
C18_PollerVerifiedOnlyAfterWrite == fdcService = "poller" => C18_VerifiedOnlyAfterWrite

\* C18, second half: a write that throws leaves the request failed.
C18_FailedWriteLeavesFailed ==
    [][\A id \in RequestIds :
          (awaiting[id].call = "write" /\ awaiting'[id] = NoCall /\ restarts' = restarts
             /\ awaiting[id].attestationId \notin attestationStorage')
          => requests'[id].status = "failed"]_vars

\* C19: under the polling entry point, with the interval timer firing, time
\* passing and every external call returning, a request whose status is
\* accepted reaches a terminal status (verified, failed or timeout); and a
\* request is marked timeout only when more than REQUEST_TIMEOUT_MS have
\* passed since its creation.
C19_AcceptedReachesTerminal ==
    /\ \A id \in RequestIds :
          (requests[id].status = "accepted") ~> (requests[id].status \in TerminalStatuses)
    /\ [](\A id \in Submitted :
             requests[id].status = "timeout" => clock - requests[id].createdAt > REQUEST_TIMEOUT_MS)

\* A request was answered "pending" by the data-availability layer more than
\* once and is now marked timeout.
C19_Witness ==
    \E id \in Submitted :
        /\ requests[id].status = "timeout"
        /\ requests[id].pollAttempts >= 2

\* No request is open when the horizon of the model is reached.
C19_ClosedBeforeHorizon ==
    clock >= Horizon - 1 => \A id \in Submitted : requests[id].status \in TerminalStatuses

(***************************************************************************)
(* Vocabulary of the indexer properties.                                   *)
(***************************************************************************)
\* The lists the indexers have produced: the last result and the cached list.
ProducedLists ==
    (IF indexed # NotCalled /\ "transfers" \in DOMAIN indexed THEN {indexed.transfers} ELSE {})
    \cup (IF walletCache.cached THEN {walletCache.transfers} ELSE {})

SameEntry(a, b) ==
    /\ hashToLowerCase(a.txHash) = hashToLowerCase(b.txHash)
    /\ a.logIndex = b.logIndex
    /\ toLowerCase(a.token) = toLowerCase(b.token)

\* a comes strictly before b in the order of (block, log index, token, hash).
KeyBefore(a, b) ==
    \/ a.blockNumber < b.blockNumber
    \/ /\ a.blockNumber = b.blockNumber
       /\ \/ a.logIndex < b.logIndex
          \/ /\ a.logIndex = b.logIndex
             /\ \/ toLowerCase(a.token) < toLowerCase(b.token)
                \/ /\ toLowerCase(a.token) = toLowerCase(b.token)
                   /\ hashToLowerCase(a.txHash) < hashToLowerCase(b.txHash)

NoDuplicateEntries(list) ==
    \A i, j \in 1..Len(list) : i < j => ~SameEntry(list[i], list[j])

OrderedByKey(list) ==
    \A i, j \in 1..Len(list) : i < j => KeyBefore(list[i], list[j])

\* Every list an indexer has produced (the result of the RPC path, the list
\* it caches, and the result of the fallback path) has no two entries with
\* the same (txHash, logIndex, token) and is in the strict order of
\* (blockNumber, logIndex, token, txHash): the list is determined by the set
\* of transfers it holds.
C20_DedupedAndOrdered ==
    \A list \in ProducedLists :
        /\ NoDuplicateEntries(list)
        /\ OrderedByKey(list)

\* The RPC path has merged a cached transfer with a fetched one of the same
\* key, and its list holds several transfers.
C20_Witness ==
    /\ indexed # NotCalled
    /\ indexed.source = "rpc"
    /\ fork = 1
    /\ Len(indexed.transfers) >= 3
    /\ \E i \in 1..Len(indexed.transfers) :
          indexed.transfers[i].txHash = 42 /\ indexed.transfers[i].blockNumber = 4

\* The fallback path has listed two transfers of one block and log index.
C20_FallbackWitness ==
    /\ indexed # NotCalled
    /\ indexed.source = "fallback"
    /\ "transfers" \in DOMAIN indexed
    /\ Len(indexed.transfers) = 2
    /\ indexed.transfers[1].blockNumber = indexed.transfers[2].blockNumber
    /\ indexed.transfers[1].logIndex = indexed.transfers[2].logIndex

\* Running the RPC path again with the same configuration on the same chain
\* data yields the same list, whatever the cache on disk holds.
C20_RerunSameList ==
    [][(/\ indexed # NotCalled
        /\ indexed.source = "rpc"
        /\ indexed'.source = "rpc"
        /\ indexed'.query = indexed.query)
       => indexed'.transfers = indexed.transfers]_vars

\* C20: after any sequence of syncs, every list the indexers produce has no
\* two entries with the same (txHash, logIndex, token) and is ordered by
\* (blockNumber, logIndex, token, txHash), and indexing the same chain data
\* again with the same configuration yields the same list.
C20_SameListOnReindex == []C20_DedupedAndOrdered /\ C20_RerunSameList

(***************************************************************************)
(* Vocabulary of the contract properties: the transaction of a step is the *)
(* one lastTx holds after it.                                              *)
(***************************************************************************)
RecordArgs(tx) ==
    [subject |-> tx.args[2], certHash |-> tx.args[3], provider |-> tx.args[4], issuedAt |-> tx.args[5],
     exists |-> TRUE]

RecordStep == deployed = "AttestationStorage" /\ lastTx'.fn = "recordEducationAttestation"

(***************************************************************************)
(* C21 (as stated). Once an attestation id is recorded, every later call   *)
(* of recordEducationAttestation with that id reverts with                 *)
(* DuplicateAttestation and changes nothing. It fails on the error: the    *)
(* checks of the owner, the subject and the provider come first.           *)
(***************************************************************************)
C21_Original_LaterCallsRevertDuplicate ==
    [][(RecordStep /\ educationStore[lastTx'.args[1]].exists)
          => /\ lastTx'.outcome.reverted
             /\ lastTx'.outcome.error = "DuplicateAttestation"
             /\ educationStore' = educationStore]_vars

(***************************************************************************)
(* C21 (amended). An attestation id is recorded at most once. A call that  *)
(* succeeds stores its arguments under an id that held nothing; a record   *)
(* that exists is never changed again, so the stored (subject, certHash,   *)
(* provider, issuedAt) of an id are those of the first successful call;    *)
(* every later call with the id reverts and changes nothing, with          *)
(* DuplicateAttestation when it comes from the owner with a non-zero       *)
(* subject and a non-empty provider.                                       *)
(***************************************************************************)
C21_RecordedOnce ==
    [][/\ \A id \in AttestationIds :
             educationStore[id].exists => educationStore'[id] = educationStore[id]
       /\ RecordStep =>
            LET id == lastTx'.args[1]
                out == lastTx'.outcome
            IN  /\ out.reverted => educationStore' = educationStore
                /\ ~out.reverted =>
                      /\ ~educationStore[id].exists
                      /\ educationStore' = [educationStore EXCEPT ![id] = RecordArgs(lastTx')]
                /\ educationStore[id].exists =>
                      /\ out.reverted
                      /\ (lastTx'.sender = "owner" /\ lastTx'.args[2] # NoAddr /\ lastTx'.args[4] # "")
                            => out.error = "DuplicateAttestation"]_vars

\* A call for a recorded id, with arguments other than the stored ones, has
\* reverted with DuplicateAttestation.
C21_Witness ==
    /\ lastTx.fn = "recordEducationAttestation"
    /\ lastTx.outcome.reverted
    /\ lastTx.outcome.error = "DuplicateAttestation"
    /\ getEducationAttestation(educationStore, lastTx.args[1]).exists
    /\ getEducationAttestation(educationStore, lastTx.args[1]) # RecordArgs(lastTx)

RegistryStep == deployed = "EmployerRegistry" /\ lastTx'.fn \in {"addEmployer", "removeEmployer"}

VerifyCall == lastTx.fn = "verifyCVProof"

\* The CVProofVerified event the claim describes, for the call lastTx holds.
EmitsVerdict ==
    LET out == lastTx.outcome
        verdict == ForwardVerifyProof(groth16Verifier, mockResult, lastTx.args[1], lastTx.args[2])
    IN  /\ Len(out.events) = 1
        /\ out.events[1] = [name |-> "CVProofVerified", verifier |-> lastTx.sender,
                            proofHash |-> <<"keccak256", lastTx.args[1], lastTx.args[2]>>,
                            success |-> out.returned]
        /\ ~verdict.reverted
        /\ out.returned = verdict.success

(***************************************************************************)
(* C23. Every call of verifyCVProof, for any proof bytes and any public    *)
(* signals, emits one CVProofVerified(caller, keccak256(abi.encode(proof,  *)
(* publicSignals)), success) whose success flag is the verdict of the      *)
(* configured verifier and the value the function returns. It fails when   *)
(* the configured verifier is the Groth16VerifierAdapter and the proof is  *)
(* not 256 bytes or the signals are not five: the adapter reverts, and the *)
(* call with it.                                                           *)
(***************************************************************************)
C23_EveryCallEmitsVerdict == VerifyCall => (~lastTx.outcome.reverted /\ EmitsVerdict)

\* C23, the part that holds: a call that does not revert emits the event with
\* the verdict it returns, and a call forwarded to the mock never reverts.
C23_CompletedCallEmitsVerdict ==
    VerifyCall => /\ ~lastTx.outcome.reverted => EmitsVerdict
                  /\ groth16Verifier = "MockGroth16Verifier" => ~lastTx.outcome.reverted

(***************************************************************************)
(* C24. Every witness the builder emits without an error satisfies all the *)
(* constraints of the circuit, whatever educationSkillHash,                *)
(* employmentExperienceMonths and educationExpiryAt the caller supplied.   *)
(* It fails: the builder writes the caller's educationSkillHash and        *)
(* employmentExperienceMonths into the witness without comparing them with *)
(* the policy, and the circuit rejects a skill other than the required one *)
(* and an experience below the minimum.                                    *)
(***************************************************************************)
C24_EmittedWitnessSatisfiesCircuit ==
    (built.called /\ built.result.ok) =>
        /\ VerifySovereignCV(built.result.record)
        /\ proof.called => proof.made

\* C24, the part that holds: an emitted witness whose skill hash is the
\* required one and whose experience reaches the minimum satisfies the circuit.
C24_PolicyMetWitnessSatisfiesCircuit ==
    (/\ built.called /\ built.result.ok
     /\ built.result.record.educationSkillHash = built.result.record.policyRequiredSkillHash
     /\ built.result.record.employmentExperienceMonths >= built.result.record.policyMinExperienceMonths)
        => VerifySovereignCV(built.result.record)

WindowLength(r) == r.employmentMonth2 - r.employmentMonth0 + 1

(***************************************************************************)
(* C27. The circuit does not tie employmentExperienceMonths to the matched *)
(* months. The valid vector with its experience replaced, whose window is  *)
(* three months long, is accepted exactly when the experience fits in 16   *)
(* bits and is at least policyMinExperienceMonths (12 months claimed over  *)
(* a three-month window are accepted), and an input of the builder with    *)
(* the required skill, whose window is three months too, is accepted       *)
(* exactly when the caller's experience is at least the minimum.           *)
(***************************************************************************)
C27_ExperienceNotTiedToMonths ==
    /\ (WitnessGenerated /\ witnessInput.source = "vector"
           /\ forgedFields \subseteq {"employmentExperienceMonths"}) =>
          /\ WindowLength(Signals) = 3
          /\ Accepted <=> /\ FitsExperience(Signals.employmentExperienceMonths)
                          /\ Signals.employmentExperienceMonths >= Signals.policyMinExperienceMonths
    /\ (WitnessGenerated /\ witnessInput.source = "builder"
           /\ Signals.educationSkillHash = Signals.policyRequiredSkillHash) =>
          /\ WindowLength(Signals) = 3
          /\ Accepted <=> Signals.employmentExperienceMonths >= Signals.policyMinExperienceMonths

\* Twelve months of experience over the three-month window of the valid vector were accepted.
C27_Witness ==
    /\ Accepted
    /\ forgedFields = {"employmentExperienceMonths"}
    /\ Signals.employmentExperienceMonths = 12
    /\ Signals.policyMinExperienceMonths = 12
    /\ WindowLength(Signals) = 3

(***************************************************************************)
(* C25. Once the stored status of a request is verified, failed or         *)
(* timeout, it never changes again, whatever the interleaving of the       *)
(* submit handler, the poller and a restart. It fails: the submit handler  *)
(* stores the status accepted when queueWeb2JsonVerification returns,      *)
(* whatever the poller has made of the pending record in the meantime.     *)
(***************************************************************************)
C25_TerminalStatusIsFinal ==
    [][\A id \in RequestIds :
          (requests[id] # NoRequest /\ requests[id].status \in TerminalStatuses)
             => requests'[id].status = requests[id].status]_vars

\* C25, the part that holds: a terminal status changes only in the step in
\* which the submit handler resumes from queueWeb2JsonVerification; processRequest
\* and a restart leave a terminal status as it is.
C25_OnlySubmitHandlerReopens ==
    [][\A id \in RequestIds :
          (requests[id] # NoRequest /\ requests[id].status \in TerminalStatuses
              /\ requests'[id].status # requests[id].status)
             => awaiting[id].call = "queue" /\ awaiting'[id].call # "queue" /\ restarts' = restarts]_vars

(***************************************************************************)
(* C26. At most one processRequest execution is in progress for a request  *)
(* at any time: while one waits for the poll or the write, no step but the *)
(* return of that call (or a restart of the process) touches the request   *)
(* or starts another call for it, so an overlapping poller tick returns    *)
(* without acting. The marker is removed whenever an execution ends, also  *)
(* when the write throws: processingRequestIds holds exactly the requests  *)
(* with an execution waiting, and never a stale id.                        *)
(***************************************************************************)
C26_OneExecutionPerRequest ==
    /\ [](processingRequestIds = InFlight(awaiting))
    /\ [][\A id \in RequestIds :
             (id \in processingRequestIds /\ restarts' = restarts) =>
                /\ \/ awaiting'[id] = awaiting[id]
                   \/ awaiting'[id] = NoCall
                   \/ /\ awaiting[id].call = "poll"
                      /\ awaiting'[id].call = "write"
                      /\ awaiting'[id].record = awaiting[id].record
                /\ awaiting'[id] = awaiting[id] => requests'[id] = requests[id]
                /\ awaiting'[id] = NoCall => id \notin processingRequestIds']_vars

\* The interval timer has fired while an execution for a request that was due
\* was waiting, and the execution still waits alone.
C26_Witness ==
    /\ restarts = 0
    /\ \E id \in RequestIds :
          /\ id \in processingRequestIds
          /\ awaiting[id].now < nextPollerRun - POLL_INTERVAL_MS
          /\ requests[id].status = "accepted"
          /\ requests[id].nextPollAt <= nextPollerRun - POLL_INTERVAL_MS

(***************************************************************************)
(* Properties of the verification job of the facts service.               *)
(***************************************************************************)
JobStarted == job # NotCalled

ProofReady == JobStarted /\ job.state = "proof_ready"

\* C28: a verification job is in state proof_ready only if every one of its
\* certificates has status verified, the employment check returned qualifies =
\* true and its proofPackage is not null; a job with a failed or timed-out
\* certificate, or whose employment answer does not qualify, is never in
\* proof_ready, and a job that has left the state running never enters it.
C28_ProofReadyOnlyWhenAllChecksPassed ==
    /\ [](ProofReady => /\ CertificateStatuses(job) = {"verified"}
                        /\ job.employment # NotCalled
                        /\ job.employment.qualifies
                        /\ job.proofPackage # NotCalled
                        /\ job.stage = "proof_ready")
    /\ [][(JobStarted /\ job.state \in {"failed", "timeout"}) => job' = job]_vars

\* A job of two certificates is in proof_ready, with both certificates verified,
\* a qualifying employment answer and a proof package.
C28_Witness ==
    /\ ProofReady
    /\ Len(job.certificates) = 2
    /\ CertificateStatuses(job) = {"verified"}
    /\ job.employment.qualifies
    /\ job.proofPackage # NotCalled

\* The step in which runVerificationJob receives the answer of the Plasma service.
EmploymentStep == jobAwait.call = "employment" /\ job'.employment # NotCalled

\* C29: in strict 3-month mode of both services, a job whose certificates are all verified and
\* whose wallet the Plasma service answers qualifies = true with three matched
\* months moves on to generating_proof when the answer arrives: the checks of
\* the answer's shape do not fail it.
C29_StrictQualifyingJobReachesProof ==
    [][(/\ EmploymentStep
        /\ ruleMode.facts = "strict_3_months"
        /\ ruleMode.plasma = "strict_3_months"
        /\ CertificateStatuses(job) = {"verified"}
        /\ job'.employment.qualifies
        /\ Len(job'.employment.monthsMatched) = 3)
       => (job'.state = "running" /\ job'.stage = "generating_proof")]_vars

\* C30: a proof package is generated for the attestation id that was
\* requested, by the body of the proof request or by the job's verified
\* certificate; a request for an id the wallet's attestations do not hold
\* yields no package.
C30_PackageForRequestedAttestation ==
    /\ (proofResponse # NotCalled /\ proofResponse.status = 200 /\ proofResponse.requested # NoId)
          => SameAddress(proofResponse.body.pkg.attestationId, proofResponse.requested)
    /\ (ProofReady /\ certificateAttestationId(job) # NoId)
          => SameAddress(job.proofPackage.attestationId, certificateAttestationId(job))

====
